---- MODULE Spec2Model ----
(***************************************************************************)
(* aas-ci-lint: file discovery, the validation orchestrator and the IDTA   *)
(* template conformance engine.                                            *)
(*                                                                         *)
(* Strings are sequences of UTF-16 code units (97 = "a", 66 = "B", ...).   *)
(* An optional value is <<>> when it is undefined and <<v>> when it is v.  *)
(***************************************************************************)
EXTENDS Integers, Sequences, FiniteSets, TLC

\* tree: the files under basePath.         disc: the last discoverFiles call.
\* world: directories, templates, process.  engines: Orchestrator.engines.
\* run: the lint() call in progress.        result: what the last lint() gave.
\* history: the results before it.          behaviour: what the engines do.
\* tce: the TemplateConformanceEngine.      calls: its validate calls in flight.
\* validated: the validate calls a direct caller of the engine has taken.
VARIABLES tree, disc, world, engines, run, result, history, behaviour, tce, calls, validated, entry

vars == <<tree, disc, world, engines, run, result, history, behaviour, tce, calls, validated, entry>>

None == <<>>

Some(v) == <<v>>

Sign(n) == IF n < 0 THEN -1 ELSE IF n > 0 THEN 1 ELSE 0

MinOf(S) == CHOOSE x \in S : \A y \in S : x <= y

SeqRange(s) == {s[i] : i \in 1..Len(s)}

RECURSIVE Flatten(_)
Flatten(ss) == IF ss = <<>> THEN <<>> ELSE Head(ss) \o Flatten(Tail(ss))

SelectIdx(s, Keep(_)) ==
    LET F[i \in 0..Len(s)] ==
            IF i = 0 THEN <<>>
            ELSE IF Keep(i) THEN Append(F[i - 1], s[i]) ELSE F[i - 1]
    IN F[Len(s)]

(***************************************************************************)
(* String comparison.                                                      *)
(***************************************************************************)

\* The comparison of Array.prototype.sort() without a comparator: by code units.
CodeUnitCompare(a, b) ==
    LET n == IF Len(a) < Len(b) THEN Len(a) ELSE Len(b)
        d == {i \in 1..n : a[i] # b[i]}
    IN IF d = {} THEN Sign(Len(a) - Len(b))
       ELSE Sign(a[MinOf(d)] - b[MinOf(d)])

IsUpper(c) == c \in 65..90

\* Collation weights of String.prototype.localeCompare (ICU root collation on
\* ASCII letters, digits, "-", ".", "/"): letters compare without case first,
\* and only if that ties is a lower-case letter put before its upper-case form.
PrimaryKey(s) == [i \in 1..Len(s) |-> IF IsUpper(s[i]) THEN s[i] + 32 ELSE s[i]]

TertiaryKey(s) == [i \in 1..Len(s) |-> IF IsUpper(s[i]) THEN 1 ELSE 0]

localeCompare(a, b) ==
    LET p == CodeUnitCompare(PrimaryKey(a), PrimaryKey(b))
    IN IF p # 0 THEN p ELSE CodeUnitCompare(TertiaryKey(a), TertiaryKey(b))

(***************************************************************************)
(* Findings (types.ts) and their normalisation (Orchestrator).             *)
(***************************************************************************)

\* Number.MAX_SAFE_INTEGER is 2^53 - 1; the largest 32-bit integer stands for
\* it here: it is above every line number a finding carries.
MAX_SAFE_INTEGER == 2147483647

Finding(ruleId, ruleName, severity, message, location, source, details) ==
    [ruleId |-> ruleId, ruleName |-> ruleName, severity |-> severity,
     message |-> message, location |-> location, source |-> source, details |-> details]

Location(filePath, internalPath, jsonPointer, line, column) ==
    [filePath |-> filePath, internalPath |-> internalPath,
     jsonPointer |-> jsonPointer, line |-> line, column |-> column]

LineOr(line, dflt) == IF line = None THEN dflt ELSE line[1]

compareFindingsUndefinedFirst(a, b) ==
    LET fileCompare == localeCompare(a.location.filePath, b.location.filePath)
        aLine == LineOr(a.location.line, 0)
        bLine == LineOr(b.location.line, 0)
    IN IF fileCompare # 0 THEN fileCompare
       ELSE IF aLine # bLine THEN aLine - bLine
       ELSE localeCompare(a.ruleId, b.ruleId)

\* The comparator of normalizeFindings' sort.
compareFindings(a, b) ==
    LET fileCompare == localeCompare(a.location.filePath, b.location.filePath)
        aLine == LineOr(a.location.line, MAX_SAFE_INTEGER)
        bLine == LineOr(b.location.line, MAX_SAFE_INTEGER)
    IN IF fileCompare # 0 THEN fileCompare
       ELSE IF aLine # bLine THEN aLine - bLine
       ELSE localeCompare(a.ruleId, b.ruleId)

\* x put into the sorted sequence s behind every element that does not compare
\* after it: Array.prototype.sort is stable.
InsertSorted(s, x) ==
    LET later == {i \in 1..Len(s) : compareFindings(s[i], x) > 0}
        k == IF later = {} THEN Len(s) + 1 ELSE MinOf(later)
    IN SubSeq(s, 1, k - 1) \o <<x>> \o SubSeq(s, k, Len(s))

RECURSIVE sortFindings(_)
sortFindings(s) ==
    IF s = <<>> THEN <<>>
    ELSE InsertSorted(sortFindings(SubSeq(s, 1, Len(s) - 1)), s[Len(s)])

dedupKeyWithSource(finding) ==
    [filePath |-> finding.location.filePath,
     jsonPointer |-> finding.location.jsonPointer,
     line |-> finding.location.line,
     ruleId |-> finding.ruleId,
     message |-> finding.message,
     source |-> finding.source]

\* The argument of JSON.stringify in the deduplication; undefined members are
\* left out of the text, so the text is one-to-one with this record.
dedupKey(finding) ==
    [filePath |-> finding.location.filePath,
     jsonPointer |-> finding.location.jsonPointer,
     line |-> finding.location.line,
     ruleId |-> finding.ruleId,
     message |-> finding.message]

deduplicate(sorted) ==
    SelectIdx(sorted, LAMBDA i : \A j \in 1..(i - 1) : dedupKey(sorted[j]) # dedupKey(sorted[i]))

normalizeFindingsPopulated(findings) ==
    LET kept == deduplicate(sortFindings(findings))
    IN [i \in 1..Len(kept) |->
           [kept[i] EXCEPT !.location.line = IF @ = None THEN Some(MAX_SAFE_INTEGER) ELSE @]]

normalizeFindings(findings) == deduplicate(sortFindings(findings))

CountSeverity(findings, sev) == Cardinality({i \in 1..Len(findings) : findings[i].severity = sev})

computeSummaryOfValidated(findings, filesScanned) ==
    [errors |-> CountSeverity(findings, "error"),
     warnings |-> CountSeverity(findings, "warning"),
     notes |-> CountSeverity(findings, "info"),
     filesScanned |-> Cardinality({findings[i].location.filePath : i \in 1..Len(findings)}),
     filesWithFindings |-> Cardinality({findings[i].location.filePath : i \in 1..Len(findings)})]

computeSummary(findings, filesScanned) ==
    [errors |-> CountSeverity(findings, "error"),
     warnings |-> CountSeverity(findings, "warning"),
     notes |-> CountSeverity(findings, "note"),
     filesScanned |-> Len(filesScanned),
     filesWithFindings |-> Cardinality({findings[i].location.filePath : i \in 1..Len(findings)})]

(***************************************************************************)
(* JSON values, and what a file holds.                                     *)
(***************************************************************************)

\* A value is [t, s, n, a, o]: its type, and its text (a string), its number,
\* its items (an array) or its members (an object, as a sequence of [k, x]).
JVal(t, str, num, items, members) == [t |-> t, s |-> str, n |-> num, a |-> items, o |-> members]

JUndef == JVal("undef", <<>>, 0, <<>>, <<>>)

JNull == JVal("null", <<>>, 0, <<>>, <<>>)

JStr(str) == JVal("str", str, 0, <<>>, <<>>)

JNum(num) == JVal("num", <<>>, num, <<>>, <<>>)

JArr(items) == JVal("arr", <<>>, 0, items, <<>>)

JObj(members) == JVal("obj", <<>>, 0, <<>>, members)

Fld(key, x) == [k |-> key, x |-> x]

HasKey(x, key) == x.t = "obj" /\ \E i \in 1..Len(x.o) : x.o[i].k = key

\* x[key] for a value that is not null or undefined.
Get(x, key) ==
    IF HasKey(x, key) THEN x.o[CHOOSE i \in 1..Len(x.o) : x.o[i].k = key].x ELSE JUndef

IsArray(x) == x.t = "arr"

IsString(x) == x.t = "str"

Falsy(x) == \/ x.t \in {"undef", "null"}
            \/ x.t = "str" /\ x.s = <<>>
            \/ x.t = "num" /\ x.n = 0

NoZip == [corrupt |-> FALSE, entries |-> <<>>]

\* parse: "unreadable" (reading throws), "invalid" (JSON.parse throws), "ok".
Unreadable == [parse |-> "unreadable", value |-> JUndef, zip |-> NoZip]

NotJson == [parse |-> "invalid", value |-> JUndef, zip |-> NoZip]

JsonText(value) == [parse |-> "ok", value |-> value, zip |-> NoZip]

\* An .aasx package: whether extraction throws, and the files of its aasx/
\* directory in readdir order, each [name, content].
Zip(corrupt, entries) == [parse |-> "invalid", value |-> JUndef, zip |-> [corrupt |-> corrupt, entries |-> entries]]

(***************************************************************************)
(* File discovery (discovery.ts).                                          *)
(*                                                                         *)
(* A file of the tree under basePath is [dirs, name, content]: the names   *)
(* of the directories from basePath down to it, its own name, and what     *)
(* reading it gives. Its absolute path is "/" dir "/" ... "/" name.        *)
(***************************************************************************)

sJson == <<46, 106, 115, 111, 110>>

sXml == <<46, 120, 109, 108>>

sAasx == <<46, 97, 97, 115, 120>>

sNodeModules == <<110, 111, 100, 101, 95, 109, 111, 100, 117, 108, 101, 115>>

sGit == <<46, 103, 105, 116>>

sPublished == <<112, 117, 98, 108, 105, 115, 104, 101, 100>>

SUPPORTED_EXTENSIONS == {sAasx, sJson, sXml}

aasKeys == {"assetAdministrationShells", "submodels", "conceptDescriptions"}

AbsPath(f) == Flatten([i \in 1..Len(f.dirs) |-> <<47>> \o f.dirs[i]]) \o <<47>> \o f.name

\* path.extname: from the last "." of the last path segment, "" when there is
\* none or when it starts the segment.
extname(p) ==
    LET slashes == {i \in 1..Len(p) : p[i] = 47}
        start == IF slashes = {} THEN 1 ELSE -MinOf({-i : i \in slashes}) + 1
        dots == {i \in (start + 1)..Len(p) : p[i] = 46}
    IN IF dots = {} THEN <<>> ELSE SubSeq(p, -MinOf({-i : i \in dots}), Len(p))

toLowerCase(s) == [i \in 1..Len(s) |-> IF IsUpper(s[i]) THEN s[i] + 32 ELSE s[i]]

\* fast-glob's matching of one pattern against one file, for the pattern shapes
\* "**/*" (all), "**/*<ext>" (ext), "**/<dir>/**" (under); matching is
\* case-sensitive and, dot being false, "*" and "**" match no name that starts
\* with ".".
IsDotName(seg) == Len(seg) > 0 /\ seg[1] = 46

HasSuffix(s, suf) == Len(s) >= Len(suf) /\ SubSeq(s, Len(s) - Len(suf) + 1, Len(s)) = suf

NoDotSegment(f) == ~IsDotName(f.name) /\ \A i \in 1..Len(f.dirs) : ~IsDotName(f.dirs[i])

GlobMatches(pattern, f) ==
    CASE pattern.kind = "all" -> NoDotSegment(f)
      [] pattern.kind = "ext" -> NoDotSegment(f) /\ HasSuffix(f.name, pattern.arg)
                                   /\ Len(f.name) > Len(pattern.arg)
      [] pattern.kind = "under" -> pattern.arg \in SeqRange(f.dirs)
      [] OTHER -> FALSE

PatAll == [kind |-> "all", arg |-> <<>>]

PatExt(ext) == [kind |-> "ext", arg |-> ext]

PatUnder(dir) == [kind |-> "under", arg |-> dir]

\* An empty pattern string: fast-glob throws on it.
PatEmpty == [kind |-> "empty", arg |-> <<>>]

fastGlobThrows(patterns) == \E i \in 1..Len(patterns) : patterns[i].kind = "empty"

\* The set fast-glob returns (unique is its default): the files some pattern
\* matches and no ignore pattern matches.
fastGlob(fs, patterns, ignore) ==
    {f \in fs : /\ \E i \in 1..Len(patterns) : GlobMatches(patterns[i], f)
                /\ \A i \in 1..Len(ignore) : ~GlobMatches(ignore[i], f)}

\* JSON.parse of the content, then aasKeys.some(key => Array.isArray(parsed[key]));
\* a read error, a parse error and the TypeError of reading a key of null are
\* all caught and give false.
looksLikeAasJson(f) ==
    /\ f.content.parse = "ok"
    /\ f.content.value.t # "null"
    /\ \E key \in aasKeys : IsArray(Get(f.content.value, key))

discoverIgnoreCallerOnly(exclude) == exclude

discoverIgnore(exclude) == exclude \o <<PatUnder(sNodeModules), PatUnder(sGit)>>

validatedFiles(fs, patterns, exclude) ==
    {AbsPath(f) : f \in {g \in fastGlob(fs, patterns, discoverIgnore(exclude)) :
        LET ext == toLowerCase(extname(AbsPath(g)))
        IN /\ ext \in SUPPORTED_EXTENSIONS
           /\ ext = sJson => looksLikeAasJson(g)}}

\* The sequence that holds the paths of S in the order of paths.sort(cmp).
RECURSIVE sortPaths(_)
sortPaths(S) ==
    IF S = {} THEN <<>>
    ELSE LET first == CHOOSE x \in S : \A y \in S : localeCompare(x, y) <= 0
         IN <<first>> \o sortPaths(S \ {first})

discoverFiles(fs, patterns, exclude) == sortPaths(validatedFiles(fs, patterns, exclude))

(***************************************************************************)
(* The files the model draws trees from.                                   *)
(***************************************************************************)

\* What a .json file may hold: an unreadable file, text that is not JSON, the
\* literal null, a number, and objects with and without the AAS keys.
EmptyEnv == JsonText(JObj(<<Fld("submodels", JArr(<<>>))>>))

JsonContents ==
    {Unreadable, NotJson, JsonText(JNull), JsonText(JNum(7)),
     JsonText(JObj(<<Fld("foo", JStr(<<98>>))>>)),
     JsonText(JObj(<<Fld("submodels", JObj(<<>>))>>)),
     EmptyEnv,
     JsonText(JObj(<<Fld("assetAdministrationShells", JNull), Fld("conceptDescriptions", JArr(<<>>))>>)),
     JsonText(JObj(<<Fld("assetAdministrationShells", JArr(<<>>)), Fld("submodels", JArr(<<>>)),
                     Fld("conceptDescriptions", JArr(<<>>))>>))}

File(dirs, name, content) == [dirs |-> dirs, name |-> name, content |-> content]

sSub == <<115, 117, 98>>

sTxt == <<46, 116, 120, 116>>

sUpperJson == <<46, 74, 83, 79, 78>>

\* a.json, B.json, E.JSON, c.xml, D.AASX, e.txt and f at the top; a.json under
\* node_modules, .git and sub.
DiscoveryFiles ==
    {File(<<>>, <<97>> \o sJson, c) : c \in JsonContents}
    \cup {File(<<>>, <<66>> \o sJson, c) : c \in {EmptyEnv, NotJson}}
    \cup {File(<<>>, <<69>> \o sUpperJson, c) : c \in {EmptyEnv, JsonText(JObj(<<>>))}}
    \cup {File(<<>>, <<99>> \o sXml, NotJson), File(<<>>, <<68, 46, 65, 65, 83, 88>>, Zip(FALSE, <<>>)),
          File(<<>>, <<101>> \o sTxt, NotJson), File(<<>>, <<102>>, EmptyEnv),
          File(<<sNodeModules>>, <<97>> \o sJson, EmptyEnv),
          File(<<sGit>>, <<97>> \o sJson, EmptyEnv),
          File(<<sSub>>, <<97>> \o sJson, EmptyEnv)}

MaxTreeFiles == 3

\* A tree holds at most one file per path.
IsTree(S) == \A f, g \in S : AbsPath(f) = AbsPath(g) => f = g

DiscoveryTrees == {S \in SUBSET DiscoveryFiles : Cardinality(S) <= MaxTreeFiles /\ IsTree(S)}

PatternLists ==
    {<<PatAll>>, <<PatExt(sJson)>>, <<PatExt(sJson), PatExt(sXml)>>, <<PatUnder(sGit), PatAll>>,
     <<PatUnder(sNodeModules)>>, <<PatEmpty>>}

ExcludeLists == {<<>>, <<PatUnder(sSub)>>, <<PatExt(sXml)>>}

\* discoverFiles(patterns, {basePath, exclude}) on the tree: it rejects when
\* fast-glob throws and resolves to the sorted list otherwise.
DiscoverResult(fs, patterns, exclude) ==
    IF fastGlobThrows(patterns)
    THEN [status |-> "rejected", files |-> <<>>, patterns |-> patterns, exclude |-> exclude]
    ELSE [status |-> "returned", files |-> discoverFiles(fs, patterns, exclude),
          patterns |-> patterns, exclude |-> exclude]

DiscNone == [status |-> "none", files |-> <<>>, patterns |-> <<>>, exclude |-> <<>>]

DiscoverCall ==
    \E patterns \in PatternLists, exclude \in ExcludeLists :
        /\ disc' = DiscoverResult(tree, patterns, exclude)
        /\ UNCHANGED <<tree, entry, world, engines, run, result, history, behaviour, tce, calls, validated>>

(***************************************************************************)
(* Template conformance engine, the pure part (engine-template/engine.ts). *)
(***************************************************************************)

Includes(str, sub) == \E i \in 0..(Len(str) - Len(sub)) : SubSeq(str, i + 1, i + Len(sub)) = sub

StartsWith(str, pre) == Len(str) >= Len(pre) /\ SubSeq(str, 1, Len(pre)) = pre

IsDigit(c) == c \in 48..57

AllDigits(str) == Len(str) > 0 /\ \A i \in 1..Len(str) : IsDigit(str[i])

RECURSIVE DigitsValue(_)
DigitsValue(ds) == IF ds = <<>> THEN 0 ELSE 10 * DigitsValue(SubSeq(ds, 1, Len(ds) - 1)) + (ds[Len(ds)] - 48)

\* String(n) for 0 <= n <= 99.
NumToString(n) == IF n < 10 THEN <<48 + n>> ELSE <<48 + (n \div 10), 48 + (n % 10)>>

IsSpace(c) == c \in {9, 10, 11, 12, 13, 32}

\* parseInt(str, 10) of a string with no sign: the digits that follow the
\* leading white space, None (NaN) when there are none.
parseInt(str) ==
    LET nonSpace == {i \in 1..Len(str) : ~IsSpace(str[i])}
        from == IF nonSpace = {} THEN Len(str) + 1 ELSE MinOf(nonSpace)
        stops == {i \in from..Len(str) : ~IsDigit(str[i])}
        to == IF stops = {} THEN Len(str) ELSE MinOf(stops) - 1
    IN IF to < from THEN None ELSE Some(DigitsValue(SubSeq(str, from, to)))

\* String(value ?? ''): of a string itself, of a number its digits, of an
\* object "[object Object]", of an array of strings its items joined by ",".
ToText(x) ==
    CASE x.t = "str" -> x.s
      [] x.t = "num" -> NumToString(x.n)
      [] x.t = "obj" -> <<91, 111, 98, 106, 101, 99, 116, 32, 79, 98, 106, 101, 99, 116, 93>>
      [] OTHER -> <<>>

Cardinality_(min, max) == [min |-> min, max |-> max]

parseCardinalityNumbersOnly(value) ==
    LET normalized == SelectSeq(value, LAMBDA c : ~IsSpace(c))
    IN CASE normalized = <<48>> -> Some(Cardinality_(0, Some(0)))
         [] normalized = <<49>> -> Some(Cardinality_(1, Some(1)))
         [] OTHER -> None

\* None is null; otherwise [min, max], max None when it is unbounded or unknown.
parseCardinality(value) ==
    LET normalized == SelectSeq(value, LAMBDA c : ~IsSpace(c))
        \* /^(\d+)\.\.(\d+|\*)$/
        splits == {k \in 1..(Len(normalized) - 3) :
                      /\ AllDigits(SubSeq(normalized, 1, k))
                      /\ normalized[k + 1] = 46 /\ normalized[k + 2] = 46
                      /\ \/ SubSeq(normalized, k + 3, Len(normalized)) = <<42>>
                         \/ AllDigits(SubSeq(normalized, k + 3, Len(normalized)))}
    IN CASE value = <<>> -> None
         [] normalized = <<48>> -> Some(Cardinality_(0, Some(0)))
         [] normalized = <<49>> -> Some(Cardinality_(1, Some(1)))
         [] splits # {} ->
              LET k == MinOf(splits)
                  maxRaw == SubSeq(normalized, k + 3, Len(normalized))
              IN Some(Cardinality_(DigitsValue(SubSeq(normalized, 1, k)),
                                   IF maxRaw = <<42>> THEN None ELSE Some(DigitsValue(maxRaw))))
         [] StartsWith(normalized, <<122, 101, 114, 111>>) -> Some(Cardinality_(0, None))
         [] StartsWith(normalized, <<111, 110, 101>>) -> Some(Cardinality_(1, None))
         [] OTHER -> None

\* Whether one qualifier marks its element optional (the body of isRequired's loop).
QualifierOptional(qualifier) ==
    LET typeValue == IF IsString(Get(qualifier, "type")) THEN Get(qualifier, "type").s
                     ELSE IF IsString(Get(Get(qualifier, "type"), "value"))
                          THEN Get(Get(qualifier, "type"), "value").s
                          ELSE <<>>
        nullish(x) == x.t \in {"undef", "null"}
        value == IF ~nullish(Get(qualifier, "value")) THEN Get(qualifier, "value")
                 ELSE IF ~nullish(Get(qualifier, "valueType")) THEN Get(qualifier, "valueType")
                 ELSE Get(qualifier, "kind")
        typeLower == toLowerCase(typeValue)
        valueLower == toLowerCase(ToText(value))
        parsed == parseCardinality(valueLower)
    IN /\ ~(typeValue = <<>> /\ value.t = "undef")
       /\ \/ /\ \/ Includes(typeLower, <<99, 97, 114, 100, 105, 110, 97, 108, 105, 116, 121>>)
                \/ Includes(typeLower, <<109, 117, 108, 116, 105, 112, 108, 105, 99, 105, 116, 121>>)
                \/ Includes(typeLower, <<111, 99, 99, 117, 114, 114, 101, 110, 99, 101>>)
             /\ parsed # None /\ parsed[1].min = 0
          \/ /\ Includes(typeLower, <<109, 105, 110>>)
             /\ valueLower # <<>>
             /\ parseInt(valueLower) = Some(0)

isRequired(element) ==
    LET minOccurrences == Get(element, "minOccurrences")
        qualifiers == Get(element, "qualifiers")
    IN IF minOccurrences.t = "num" /\ minOccurrences.n = 0 THEN FALSE
       ELSE IF ~IsArray(qualifiers) THEN TRUE
       ELSE \A i \in 1..Len(qualifiers.a) : ~QualifierOptional(qualifiers.a[i])

getSemanticIdValueFirstKey(semanticId) ==
    LET keys == Get(semanticId, "keys")
    IN CASE Falsy(semanticId) -> None
         [] IsString(semanticId) -> Some(semanticId.s)
         [] IsString(Get(semanticId, "value")) -> Some(Get(semanticId, "value").s)
         [] IsArray(keys) /\ Len(keys.a) > 0 /\ IsString(Get(keys.a[1], "value")) ->
              Some(Get(keys.a[1], "value").s)
         [] OTHER -> None

\* None is undefined.
getSemanticIdValue(semanticId) ==
    LET keys == Get(semanticId, "keys")
        withValue == IF IsArray(keys)
                     THEN {i \in 1..Len(keys.a) : IsString(Get(keys.a[i], "value"))}
                     ELSE {}
    IN CASE Falsy(semanticId) -> None
         [] IsString(semanticId) -> Some(semanticId.s)
         [] IsString(Get(semanticId, "value")) -> Some(Get(semanticId, "value").s)
         [] withValue # {} -> Some(Get(keys.a[MinOf(withValue)], "value").s)
         [] OTHER -> None

\* if (x): x is a string that is not empty.
Present(opt) == opt # None /\ opt[1] # <<>>

directArrays == <<"submodelElements", "value", "elements", "statements", "annotations">>

variableKeys == <<"inputVariables", "outputVariables", "inoutputVariables">>

extractChildElements(element) ==
    LET direct(key) == IF IsArray(Get(element, key)) THEN Get(element, key).a ELSE <<>>
        isObject(x) == x.t \in {"obj", "arr"}
        variables(key) ==
            IF IsArray(Get(element, key))
            THEN LET vs == Get(element, key).a
                 IN SelectIdx([i \in 1..Len(vs) |-> Get(vs[i], "value")],
                              LAMBDA i : ~Falsy(Get(vs[i], "value")) /\ isObject(Get(vs[i], "value")))
            ELSE <<>>
    IN Flatten([i \in 1..Len(directArrays) |-> direct(directArrays[i])])
       \o Flatten([i \in 1..Len(variableKeys) |-> variables(variableKeys[i])])

\* segments.join('/')
JoinPath(segments) ==
    IF segments = <<>> THEN <<>>
    ELSE segments[1] \o Flatten([i \in 1..(Len(segments) - 1) |-> <<47>> \o segments[i + 1]])

\* A Set of strings is the sequence of its members in insertion order.
Uniq(seq) == SelectIdx(seq, LAMBDA i : \A j \in 1..(i - 1) : seq[j] # seq[i])

Has(set, x) == \E i \in 1..Len(set) : set[i] = x

PathSets(idShort, semantic) == [idShort |-> idShort, semantic |-> semantic]

\* What one pass of the loop of collectPathsRecursive adds for an element
\* itself, given its idShort, its semantic ID and whether it counts as required.
OwnPaths(idShort, semanticId, required, nextIdShortPath, nextSemanticPath, requiredOnly) ==
    IF ~requiredOnly \/ required
    THEN PathSets(IF Present(idShort) THEN <<JoinPath(nextIdShortPath)>> ELSE <<>>,
                  IF Present(semanticId) THEN <<JoinPath(nextSemanticPath)>> ELSE <<>>)
    ELSE PathSets(<<>>, <<>>)

AddPaths(own, below) == PathSets(own.idShort \o below.idShort, own.semantic \o below.semantic)

\* The paths added for each element in turn, put into the two sets.
MergePaths(added) ==
    LET each == added \o <<>>
    IN PathSets(Uniq(Flatten([i \in 1..Len(each) |-> each[i].idShort])),
                Uniq(Flatten([i \in 1..Len(each) |-> each[i].semantic])))

IdShortOf(element) == IF IsString(Get(element, "idShort")) THEN Some(Get(element, "idShort").s) ELSE None

NextPath(parentPath, segment) == IF Present(segment) THEN Append(parentPath, segment[1]) ELSE parentPath

\* The paths collectPathsRecursive adds to pathSets, in the order it adds them.
RECURSIVE collectPathsRecursive(_, _, _, _, _)
RECURSIVE ElementPaths(_, _, _, _, _, _, _, _)
ElementPaths(element, idShort, semanticId, required, children, nextIdShortPath, nextSemanticPath, requiredOnly) ==
    IF Falsy(element) \/ element.t \notin {"obj", "arr"} THEN PathSets(<<>>, <<>>)
    ELSE AddPaths(OwnPaths(idShort, semanticId, required, nextIdShortPath, nextSemanticPath, requiredOnly),
                  IF Len(children) > 0
                  THEN collectPathsRecursive(children, nextIdShortPath, nextSemanticPath, required, requiredOnly)
                  ELSE PathSets(<<>>, <<>>))

ElementPathsUnder(element, idShort, semanticId, required, parentIdShortPath, parentSemanticPath, requiredOnly) ==
    ElementPaths(element, idShort, semanticId, required, extractChildElements(element),
                 NextPath(parentIdShortPath, idShort), NextPath(parentSemanticPath, semanticId),
                 requiredOnly)

collectPathsRecursiveOwnMark(elements, parentIdShortPath, parentSemanticPath, parentRequired, requiredOnly) ==
    MergePaths([i \in 1..Len(elements) |->
        ElementPathsUnder(elements[i], IdShortOf(elements[i]),
                          getSemanticIdValue(Get(elements[i], "semanticId")),
                          IF requiredOnly THEN isRequired(elements[i]) ELSE TRUE,
                          parentIdShortPath, parentSemanticPath, requiredOnly)])

collectPathsRecursive(elements, parentIdShortPath, parentSemanticPath, parentRequired, requiredOnly) ==
    MergePaths([i \in 1..Len(elements) |->
        ElementPathsUnder(elements[i], IdShortOf(elements[i]),
                          getSemanticIdValue(Get(elements[i], "semanticId")),
                          parentRequired /\ (IF requiredOnly THEN isRequired(elements[i]) ELSE TRUE),
                          parentIdShortPath, parentSemanticPath, requiredOnly)])

collectTemplatePaths(submodelElements) == collectPathsRecursive(submodelElements, <<>>, <<>>, TRUE, TRUE)

collectInstancePathsSemanticOnly(submodelElements) ==
    PathSets(<<>>, collectPathsRecursive(submodelElements, <<>>, <<>>, TRUE, FALSE).semantic)

collectInstancePaths(submodelElements) == collectPathsRecursive(submodelElements, <<>>, <<>>, TRUE, FALSE)

(***************************************************************************)
(* The world outside the process: the directories that exist, the template *)
(* files ([path, content]), AAS_CI_LINT_TEMPLATE_DIR and the working       *)
(* directory.                                                              *)
(***************************************************************************)

World(dirs, templates, envTemplateDir, cwd) ==
    [dirs |-> dirs, templates |-> templates, envTemplateDir |-> envTemplateDir, cwd |-> cwd]

dirExistsSync(w, targetPath) == targetPath \in w.dirs

\* os.homedir() is /h.
getDefaultTemplateRepoDir ==
    <<47, 104, 47, 46, 99, 97, 99, 104, 101, 47, 97, 97, 115, 45, 99, 105, 45, 108, 105, 110,
      116, 47, 115, 117, 98, 109, 111, 100, 101, 108, 45, 116, 101, 109, 112, 108, 97, 116, 101, 115>>

getDefaultTemplateDir == getDefaultTemplateRepoDir \o <<47>> \o sPublished

\* None is null.
resolveTemplateRoot(w, explicitPath) ==
    LET publishedDir == explicitPath \o <<47>> \o sPublished
    IN IF ~dirExistsSync(w, explicitPath) THEN None
       ELSE IF dirExistsSync(w, publishedDir) THEN Some(publishedDir)
       ELSE Some(explicitPath)

\* a ?? b ?? c on optional values.
Coalesce(opts) ==
    LET set == {i \in 1..Len(opts) : opts[i] # None}
    IN IF set = {} THEN None ELSE opts[MinOf(set)]

ExplicitDirConfigFirst(w, config, options) ==
    Coalesce(<<config.templateDir, options.templateDir, w.envTemplateDir>>)

ExplicitDir(w, config, options) == Coalesce(<<options.templateDir, config.templateDir, w.envTemplateDir>>)

resolveTemplateDir(w, config, options) ==
    LET explicit == ExplicitDir(w, config, options)
    IN IF Present(explicit) /\ explicit[1][1] = 47 THEN resolveTemplateRoot(w, explicit[1])
       ELSE IF Present(explicit) THEN resolveTemplateRoot(w, w.cwd \o <<47>> \o explicit[1])
       ELSE IF dirExistsSync(w, getDefaultTemplateDir) THEN Some(getDefaultTemplateDir)
       ELSE None

hasExplicitTemplateConfig(w, config, options) ==
    Present(Coalesce(<<options.templateDir, config.templateDir, w.envTemplateDir, config.templateVersion>>))

\* JSON.parse of the file, null when it cannot be read or parsed.
safeReadJson(content) == IF content.parse = "ok" THEN content.value ELSE JNull

\* The files fast-glob finds for templateDir/**/*.json.
TemplateFilesUnder(w, templateDir) ==
    {f \in w.templates : StartsWith(f.path, templateDir \o <<47>>) /\ HasSuffix(f.path, sJson)}

TemplateSpec(id, name, requiredIdShortPaths, requiredSemanticPaths, sourcePath) ==
    [id |-> id, name |-> name, requiredIdShortPaths |-> requiredIdShortPaths,
     requiredSemanticPaths |-> requiredSemanticPaths, sourcePath |-> sourcePath]

IndexHas(templateIndex, id) == \E i \in 1..Len(templateIndex) : templateIndex[i].id = id

IndexGet(templateIndex, id) == templateIndex[CHOOSE i \in 1..Len(templateIndex) : templateIndex[i].id = id]

IndexSubmodelLastWins(templateIndex, submodel, templateId, requiredPaths, filePath) ==
    IF ~Present(templateId) THEN templateIndex
    ELSE Append(SelectIdx(templateIndex, LAMBDA i : templateIndex[i].id # templateId[1]),
                TemplateSpec(templateId[1], Get(submodel, "idShort"),
                             requiredPaths.idShort, requiredPaths.semantic, filePath))

\* templateIndex.set for one submodel of a template file, unless its semantic
\* ID is missing or already in the index.
IndexSubmodel(templateIndex, submodel, templateId, requiredPaths, filePath) ==
    IF ~Present(templateId) \/ IndexHas(templateIndex, templateId[1]) THEN templateIndex
    ELSE Append(templateIndex,
                TemplateSpec(templateId[1], Get(submodel, "idShort"),
                             requiredPaths.idShort, requiredPaths.semantic, filePath))

\* The specs one template file adds to the index.
RECURSIVE IndexSubmodels(_, _, _)
IndexSubmodels(templateIndex, submodels, filePath) ==
    IF submodels = <<>> THEN templateIndex
    ELSE IndexSubmodels(
             IndexSubmodel(templateIndex, Head(submodels),
                           getSemanticIdValue(Get(Head(submodels), "semanticId")),
                           collectTemplatePaths(IF IsArray(Get(Head(submodels), "submodelElements"))
                                                THEN Get(Head(submodels), "submodelElements").a
                                                ELSE <<>>),
                           filePath),
             Tail(submodels), filePath)

\* What one template file adds to the index, data being its parsed content.
IndexFile(templateIndex, file, data, normalizedVersion) ==
    IF \/ Present(normalizedVersion) /\ ~Includes(file.path, normalizedVersion[1])
       \/ Falsy(data)
       \/ ~IsArray(Get(data, "submodels"))
    THEN templateIndex
    ELSE IndexSubmodels(templateIndex, Get(data, "submodels").a, file.path)

\* loadTemplates over the files in the order fast-glob returned them; the
\* index is the sequence of its specs in insertion order.
RECURSIVE IndexFiles(_, _, _)
IndexFiles(templateIndex, files, normalizedVersion) ==
    IF files = <<>> THEN templateIndex
    ELSE IndexFiles(IndexFile(templateIndex, Head(files), safeReadJson(Head(files).content), normalizedVersion),
                    Tail(files), normalizedVersion)

sLatest == <<108, 97, 116, 101, 115, 116>>

loadTemplates(files, templateVersion) ==
    IndexFiles(<<>>, files, IF Present(templateVersion) /\ templateVersion[1] # sLatest
                            THEN templateVersion ELSE None)

\* The orders in which fast-glob may return the files of S.
Orders(S) == {o \in [1..Cardinality(S) -> S] : \A i, j \in 1..Cardinality(S) : o[i] = o[j] => i = j}

sEnvJson == <<97, 97, 115, 45, 101, 110, 118, 105, 114, 111, 110, 109, 101, 110, 116, 46, 106, 115, 111, 110>>

sEnvXml == <<97, 97, 115, 45, 101, 110, 118, 105, 114, 111, 110, 109, 101, 110, 116, 46, 120, 109, 108>>

\* The entry of the unpacked package findAasEnvironmentInAasx returns, None when
\* it returns null: the two canonical names first, then the first .json or .xml
\* that readdir lists.
findAasEnvironmentInAasx(zip) ==
    LET named(n) == {i \in 1..Len(zip.entries) : zip.entries[i].name = n}
        other == {i \in 1..Len(zip.entries) :
                     HasSuffix(zip.entries[i].name, sJson) \/ HasSuffix(zip.entries[i].name, sXml)}
    IN IF named(sEnvJson) # {} THEN Some(zip.entries[MinOf(named(sEnvJson))])
       ELSE IF named(sEnvXml) # {} THEN Some(zip.entries[MinOf(named(sEnvXml))])
       ELSE IF other # {} THEN Some(zip.entries[MinOf(other)])
       ELSE None

Environment(kind, data, internalPath) == [kind |-> kind, data |-> data, internalPath |-> internalPath]

\* kind "null": loadEnvironment resolves to null; "throws": it rejects (the
\* package cannot be unpacked); "env": it resolves to {data, internalPath}.
loadEnvironment(filePath, content) ==
    LET ext == toLowerCase(extname(filePath))
        envEntry == findAasEnvironmentInAasx(content.zip)
    IN CASE ext = sXml -> Environment("null", JNull, None)
         [] ext = sJson ->
              IF Falsy(safeReadJson(content)) THEN Environment("null", JNull, None)
              ELSE Environment("env", safeReadJson(content), None)
         [] ext = sAasx ->
              IF content.zip.corrupt THEN Environment("throws", JNull, None)
              ELSE IF envEntry = None \/ toLowerCase(extname(envEntry[1].name)) # sJson
                   THEN Environment("null", JNull, None)
              ELSE IF Falsy(safeReadJson(envEntry[1].content)) THEN Environment("null", JNull, None)
              ELSE Environment("env", safeReadJson(envEntry[1].content),
                               Some(<<97, 97, 115, 120, 47>> \o envEntry[1].name))
         [] OTHER -> Environment("null", JNull, None)

(***************************************************************************)
(* Template conformance engine: the instance and its validate calls.       *)
(*                                                                         *)
(* validate runs from its call to its first await without interruption,    *)
(* and again from each await to the next: TceStart, TceAfterLoad and       *)
(* TceAfterEnv are these three stretches. A call in flight is a record     *)
(* that holds its arguments, its locals and where it waits.                *)
(***************************************************************************)

sTemplateConformance ==
    <<116, 101, 109, 112, 108, 97, 116, 101, 45, 99, 111, 110, 102, 111, 114, 109, 97, 110, 99, 101>>

sTemplatesNotFound ==
    <<47, 116, 101, 109, 112, 108, 97, 116, 101, 115, 45, 110, 111, 116, 45, 102, 111, 117, 110, 100>>

sMissingElement == <<47, 109, 105, 115, 115, 105, 110, 103, 45, 101, 108, 101, 109, 101, 110, 116>>

\* "Template validation skipped: no templates directory configured. Set
\* AAS_CI_LINT_TEMPLATE_DIR or use --template-dir to enable template checks."
sTemplatesSkipped ==
    <<84, 101, 109, 112, 108, 97, 116, 101, 32, 118, 97, 108, 105, 100, 97, 116, 105, 111, 110, 32,
      115, 107, 105, 112, 112, 101, 100, 58, 32, 110, 111, 32, 116, 101, 109, 112, 108, 97, 116, 101,
      115, 32, 100, 105, 114, 101, 99, 116, 111, 114, 121, 32, 99, 111, 110, 102, 105, 103, 117, 114,
      101, 100, 46, 32, 83, 101, 116, 32, 65, 65, 83, 95, 67, 73, 95, 76, 73, 78, 84, 95, 84, 69, 77,
      80, 76, 65, 84, 69, 95, 68, 73, 82, 32, 111, 114, 32, 117, 115, 101, 32, 45, 45, 116, 101, 109,
      112, 108, 97, 116, 101, 45, 100, 105, 114, 32, 116, 111, 32, 101, 110, 97, 98, 108, 101, 32,
      116, 101, 109, 112, 108, 97, 116, 101, 32, 99, 104, 101, 99, 107, 115, 46>>

\* Missing required template element "<path>" for template <name or id>.
MissingMessage(requiredPath, template) ==
    <<77, 105, 115, 115, 105, 110, 103, 32, 114, 101, 113, 117, 105, 114, 101, 100, 32, 116, 101,
      109, 112, 108, 97, 116, 101, 32, 101, 108, 101, 109, 101, 110, 116, 32, 34>>
    \o requiredPath
    \o <<34, 32, 102, 111, 114, 32, 116, 101, 109, 112, 108, 97, 116, 101, 32>>
    \o (IF template.name.t \in {"undef", "null"} THEN template.id ELSE ToText(template.name))
    \o <<46>>

TemplatesNotFoundFinding(filePath) ==
    Finding(sTemplateConformance \o sTemplatesNotFound, "Templates Not Found", "note",
            sTemplatesSkipped, Location(filePath, None, None, None, None), sTemplateConformance, None)

MissingElementFinding(filePath, internalPath, index, requiredPath, template) ==
    Finding(sTemplateConformance \o sMissingElement, "Missing Template Element", "error",
            MissingMessage(requiredPath, template),
            Location(filePath, internalPath,
                     Some(<<47, 115, 117, 98, 109, 111, 100, 101, 108, 115, 47>> \o NumToString(index)),
                     None, None),
            sTemplateConformance,
            Some([templateId |-> template.id, templateName |-> template.name,
                  expectedPath |-> requiredPath, templateSource |-> template.sourcePath]))

\* The template a submodel is matched to, None when the callback returns early.
MatchedTemplate(templateIndex, submodel) ==
    LET templateId == getSemanticIdValue(Get(submodel, "semanticId"))
    IN IF Present(templateId) /\ IndexHas(templateIndex, templateId[1])
       THEN Some(IndexGet(templateIndex, templateId[1]))
       ELSE None

SubmodelElementsOf(submodel) ==
    IF IsArray(Get(submodel, "submodelElements")) THEN Get(submodel, "submodelElements").a ELSE <<>>

MissingPathsIdShortOnly(required, instancePaths) ==
    SelectIdx(required, LAMBDA i : ~Has(instancePaths.idShort, required[i]))

\* The required paths found neither among the idShort paths nor among the
\* semantic paths of the instance.
MissingPaths(required, instancePaths) ==
    SelectIdx(required, LAMBDA i : /\ ~Has(instancePaths.idShort, required[i])
                                   /\ ~Has(instancePaths.semantic, required[i]))

MissingFindings(missing, filePath, internalPath, index, template) ==
    [i \in 1..Len(missing) |-> MissingElementFinding(filePath, internalPath, index, missing[i], template)]

TemplateFindings(template, instancePaths, filePath, internalPath, index) ==
    IF template = None THEN <<>>
    ELSE MissingFindings(MissingPaths(template[1].requiredIdShortPaths, instancePaths),
                         filePath, internalPath, index, template[1])
         \o MissingFindings(MissingPaths(template[1].requiredSemanticPaths, instancePaths),
                            filePath, internalPath, index, template[1])

\* The findings the forEach callback pushes for one submodel (index from 0).
SubmodelFindings(templateIndex, filePath, internalPath, submodel, index) ==
    TemplateFindings(MatchedTemplate(templateIndex, submodel),
                     collectInstancePaths(SubmodelElementsOf(submodel)),
                     filePath, internalPath, index)

EnvSubmodels(environment) ==
    IF IsArray(Get(environment.data, "submodels")) THEN Get(environment.data, "submodels").a ELSE <<>>

LintConfig(paths, exclude, engineConfig, templateVersion, templateDir) ==
    [paths |-> paths, exclude |-> exclude, engines |-> engineConfig,
     templateVersion |-> templateVersion, templateDir |-> templateDir]

NoConfig == LintConfig(<<>>, <<>>, None, None, None)

\* A TemplateConformanceEngine after its constructor.
NewEngine(options) ==
    [templateIndex |-> None, loadedTemplateDir |-> None, loadedTemplateVersion |-> None,
     warnedMissingTemplates |-> FALSE, options |-> options]

Call(stage, filePath, content, config, templateDir, findings, matched, readKey) ==
    [stage |-> stage, filePath |-> filePath, content |-> content, config |-> config,
     templateDir |-> templateDir, findings |-> findings, matched |-> matched, readKey |-> readKey,
     used |-> <<>>, scratch |-> None, before |-> <<>>, rebuilt |-> FALSE,
     files |-> <<>>, overlapped |-> FALSE]

IdleCall == Call("idle", <<>>, NotJson, NoConfig, None, <<>>, <<>>, <<>>)

Step(engine, call) == [engine |-> engine, call |-> call]

\* Lines 87-91: from the index being in place to the await of loadEnvironment.
SizeCheck(engine, call) ==
    IF Len(engine.templateIndex[1]) = 0
    THEN Step(engine, [call EXCEPT !.stage = "returned", !.findings = <<>>])
    ELSE Step(engine, [call EXCEPT !.stage = "loadEnvironment"])

TceStartWarnEveryCall(w, engine, filePath, content, config) ==
    LET templateDir == resolveTemplateDir(w, config, engine.options)
        call == Call("idle", filePath, content, config, templateDir, <<>>, <<>>, <<>>)
    IN IF templateDir = None
       THEN IF ~hasExplicitTemplateConfig(w, config, engine.options)
            THEN Step(engine, [call EXCEPT !.stage = "returned"])
            ELSE Step(engine,
                      [call EXCEPT !.stage = "returned", !.findings = <<TemplatesNotFoundFinding(filePath)>>])
       ELSE IF \/ engine.templateIndex = None
               \/ engine.loadedTemplateDir # templateDir
               \/ engine.loadedTemplateVersion # config.templateVersion
            THEN Step(engine, [call EXCEPT !.stage = "loadTemplates"])
            ELSE SizeCheck(engine, call)

MustLoadWhenNone(engine, templateDir, templateVersion) == engine.templateIndex = None

MustLoadForDir(engine, templateDir, templateVersion) ==
    engine.templateIndex = None \/ engine.loadedTemplateDir # templateDir

\* Whether validate builds the index: none is loaded, or the one loaded is of
\* another directory or version.
MustLoad(engine, templateDir, templateVersion) ==
    \/ engine.templateIndex = None
    \/ engine.loadedTemplateDir # templateDir
    \/ engine.loadedTemplateVersion # templateVersion

\* validate from its call to its first await or return. The call keeps what
\* the engine had loaded when it began (before).
TceStart(w, engine, filePath, content, config) ==
    LET templateDir == resolveTemplateDir(w, config, engine.options)
        call == [Call("idle", filePath, content, config, templateDir, <<>>, <<>>, <<>>) EXCEPT
                    !.before = <<engine.templateIndex # None, engine.loadedTemplateDir,
                                 engine.loadedTemplateVersion>>]
    IN IF templateDir = None
       THEN IF ~hasExplicitTemplateConfig(w, config, engine.options) \/ engine.warnedMissingTemplates
            THEN Step(engine, [call EXCEPT !.stage = "returned"])
            ELSE Step([engine EXCEPT !.warnedMissingTemplates = TRUE],
                      [call EXCEPT !.stage = "returned", !.findings = <<TemplatesNotFoundFinding(filePath)>>])
       ELSE IF MustLoad(engine, templateDir, config.templateVersion)
            THEN Step(engine, [call EXCEPT !.stage = "loadTemplates"])
            ELSE SizeCheck(engine, call)

\* validate from the end of loadTemplates, which enumerated the template files
\* in the order files, to the next await or return.
TceAfterLoad(engine, call, files) ==
    SizeCheck([engine EXCEPT !.templateIndex = Some(loadTemplates(files, call.config.templateVersion)),
                             !.loadedTemplateDir = call.templateDir,
                             !.loadedTemplateVersion = call.config.templateVersion],
              [call EXCEPT !.rebuilt = TRUE, !.files = files])

MatchedIds(templateIndex, submodels) ==
    [i \in 1..Len(submodels) |->
        IF MatchedTemplate(templateIndex, submodels[i]) = None THEN None
        ELSE Some(MatchedTemplate(templateIndex, submodels[i])[1].id)]

\* The forEach over the submodels of the environment.
ForEachSubmodel(templateIndex, filePath, internalPath, submodels) ==
    Flatten([i \in 1..Len(submodels) |->
                SubmodelFindings(templateIndex, filePath, internalPath, submodels[i], i - 1)])

AfterEnvironment(engine, call, environment, templateIndex) ==
    CASE environment.kind = "throws" -> Step(engine, [call EXCEPT !.stage = "threw"])
      [] environment.kind = "null" -> Step(engine, [call EXCEPT !.stage = "returned"])
      [] OTHER ->
           Step(engine,
                [call EXCEPT
                   !.stage = "returned",
                   !.findings = ForEachSubmodel(templateIndex, call.filePath, environment.internalPath,
                                                EnvSubmodels(environment)),
                   !.matched = MatchedIds(templateIndex, EnvSubmodels(environment)),
                   !.readKey = <<engine.loadedTemplateDir, engine.loadedTemplateVersion>>,
                   !.used = templateIndex])

\* validate from the end of loadEnvironment to its return or rejection.
TceAfterEnv(engine, call) ==
    AfterEnvironment(engine, call, loadEnvironment(call.filePath, call.content),
                     IF engine.templateIndex = None THEN <<>> ELSE engine.templateIndex[1])

(***************************************************************************)
(* The orchestrator (orchestrator.ts).                                     *)
(*                                                                         *)
(* Engines other than the template conformance engine are known only by    *)
(* the ValidationEngine interface: what canValidate and validate do for a  *)
(* file is chosen when they are first called for it and kept from then on  *)
(* (behaviour), so an engine is a fixed function of the file.              *)
(***************************************************************************)

sEngineError ==
    <<47, 105, 110, 116, 101, 114, 110, 97, 108, 47, 101, 110, 103, 105, 110, 101, 45, 101, 114, 114, 111, 114>>

\* Validation engine "<name>" failed: <message>
EngineErrorMessage(name, errorMessage) ==
    <<86, 97, 108, 105, 100, 97, 116, 105, 111, 110, 32, 101, 110, 103, 105, 110, 101, 32, 34>>
    \o name \o <<34, 32, 102, 97, 105, 108, 101, 100, 58, 32>> \o errorMessage

EngineErrorFindingAtLine(name, filePath, errorMessage) ==
    Finding(name \o sEngineError, "Engine Error", "error", EngineErrorMessage(name, errorMessage),
            Location(filePath, None, None, Some(1), None), name, None)

\* The finding the catch clause of validateFile returns.
EngineErrorFinding(name, filePath, errorMessage) ==
    Finding(name \o sEngineError, "Engine Error", "error", EngineErrorMessage(name, errorMessage),
            Location(filePath, None, None, None, None), name, None)

sAasTestEngines == <<97, 97, 115, 45, 116, 101, 115, 116, 45, 101, 110, 103, 105, 110, 101, 115>>

\* parseOutput of AasTestEnginesEngine for one violation of the given level,
\* with the message "m" and no path.
PythonFinding(filePath, severity) ==
    Finding(sAasTestEngines \o <<47, 118, 97, 108, 105, 100, 97, 116, 105, 111, 110, 47, 103, 101, 110, 101, 114, 105, 99>>,
            "m", severity, <<109>>, Location(filePath, None, None, None, None), sAasTestEngines,
            Some([violationIndex |-> 0]))

\* AasTestEnginesEngine.validate: the tool reports no violation or one, or
\* cannot be spawned and validate rejects.
PythonOutcomes(filePath) ==
    {[kind |-> "returns", findings |-> <<>>, message |-> <<>>],
     [kind |-> "throws", findings |-> <<>>, message |-> <<115, 112, 97, 119, 110>>]}
    \cup {[kind |-> "returns", findings |-> <<PythonFinding(filePath, severity)>>, message |-> <<>>] :
             severity \in {"error", "warning", "note"}}

\* The engines: g1 and g2 stand for any two implementations of ValidationEngine.
GenericEngines == {<<103, 49>>, <<103, 50>>}

\* A path no discovery returns, for findings located in another file: /z.json.
ForeignPath == <<47, 122>> \o sJson

\* The findings a generic engine may return for a file: with and without a
\* line, with rule r or S, and with another message, severity or file.
GenericFindings(name, filePath) ==
    LET mk(line, ruleId, message, severity, path) ==
            Finding(ruleId, "Rule", severity, message,
                    Location(path, None, None, line, None), name, None)
    IN {mk(None, <<114>>, <<109, 49>>, "error", filePath),
        mk(Some(1), <<114>>, <<109, 49>>, "error", filePath),
        mk(Some(2), <<114>>, <<109, 49>>, "warning", filePath),
        mk(Some(1), <<83>>, <<109, 49>>, "error", filePath),
        mk(Some(1), <<114>>, <<109, 50>>, "note", filePath),
        mk(Some(1), <<114>>, <<109, 49>>, "error", ForeignPath)}

\* The generic engines deviate from "canValidate is true and validate resolves
\* to no finding" by at most MaxDeviations in all: a finding counts one, and so
\* does a canValidate that is false or throws and a validate that rejects or
\* resolves to no array.
MaxDeviations == 2

MaxEngines == 2

MaxRuns == 2

FindingLists(name, filePath, n) ==
    UNION {[1..k -> GenericFindings(name, filePath)] : k \in 0..n}

\* What a validate call does: it resolves to findings, it rejects with a
\* message, or it resolves to something that is no array (undefined).
Outcome(kind, findings, message) == [kind |-> kind, findings |-> findings, message |-> message]

Outcomes(name, filePath, n) ==
    {Outcome("returns", fs, <<>>) : fs \in FindingLists(name, filePath, n)}
    \cup (IF n >= 1 THEN {Outcome("throws", <<>>, <<98, 111, 111, 109>>), Outcome("undefined", <<>>, <<>>)}
          ELSE {})

\* The lint() call in progress: where it is (pc: "idle", "discover" awaiting
\* discoverFiles, "await" awaiting validateFile, "done"), its locals, the
\* registry it filtered (registered), what each validate call did (log), the
\* validate calls started and not settled (inFlight), what each callback of
\* validateFile's map resolved to (returned) and whether one of those of the
\* file at hand settled after the callback of an engine behind it
\* (outOfOrder).
Run(pc, config, registered, files, activeEngines, fileIdx, applicable, settled, allFindings, log) ==
    [pc |-> pc, config |-> config, registered |-> registered, files |-> files,
     activeEngines |-> activeEngines, fileIdx |-> fileIdx, applicable |-> applicable,
     settled |-> settled, allFindings |-> allFindings, log |-> log, inFlight |-> {},
     returned |-> {}, outOfOrder |-> FALSE]

\* An entry point (the command line, the GitHub Action): where it is (pc:
\* "idle", "linting" awaiting lint, "exited"), its options, and at its end the
\* exit code of the process and whether writing the output threw.
Entry(pc, kind, options, exit, writeThrew) ==
    [pc |-> pc, kind |-> kind, options |-> options, exit |-> exit, writeThrew |-> writeThrew]

EntryOptions(paths, failOn, json, sarif, template, templateDir) ==
    [paths |-> paths, failOn |-> failOn, json |-> json, sarif |-> sarif, template |-> template,
     templateDir |-> templateDir]

NoEntry == Entry("idle", "none", EntryOptions(<<>>, <<>>, FALSE, None, TRUE, None), 0, FALSE)

IdleRun == Run("idle", NoConfig, <<>>, <<>>, <<>>, 0, <<>>, <<>>, <<>>, {})

NoSummary == [errors |-> 0, warnings |-> 0, notes |-> 0, filesScanned |-> 0, filesWithFindings |-> 0]

\* What lint() gave its caller, with the run's configuration, registry, files
\* and validate outcomes kept beside it.
Result(status, findings, summary, config, registered, files, log) ==
    [status |-> status, findings |-> findings, summary |-> summary, config |-> config,
     registered |-> registered, files |-> files, log |-> log]

NoResult == Result("none", <<>>, NoSummary, NoConfig, <<>>, <<>>, {})

Pending == [state |-> "pending", findings |-> <<>>]

Settled(findings) == [state |-> "settled", findings |-> findings]

NotIterable == [state |-> "notIterable", findings |-> <<>>]

FileByPath(path) == CHOOSE f \in tree : AbsPath(f) = path

Decided(kind, name, filePath) ==
    \E b \in behaviour : b.kind = kind /\ b.name = name /\ b.filePath = filePath

DecidedValue(kind, name, filePath) ==
    (CHOOSE b \in behaviour : b.kind = kind /\ b.name = name /\ b.filePath = filePath).value

Behaviour(kind, name, filePath, value) ==
    [kind |-> kind, name |-> name, filePath |-> filePath, value |-> value]

Deviation(b) ==
    IF b.kind = "canValidate" THEN (IF b.value.kind = "true" THEN 0 ELSE 1)
    ELSE IF b.value.kind = "returns" THEN Len(b.value.findings) ELSE 1

RECURSIVE Spent(_)
Spent(B) == IF B = {} THEN 0 ELSE LET b == CHOOSE x \in B : TRUE IN Deviation(b) + Spent(B \ {b})

\* TemplateConformanceEngine.canValidate (AasTestEnginesEngine has the same).
canValidate(filePath) == toLowerCase(extname(filePath)) \in {sAasx, sJson, sXml}

registerEngineIntoRun(name) ==
    /\ Len(engines) < MaxEngines
    /\ engines' = Append(engines, name)
    /\ run' = [run EXCEPT !.activeEngines = Append(@, name)]
    /\ UNCHANGED <<tree, entry, disc, world, result, history, behaviour, tce, calls, validated>>

registerEngine(name) ==
    /\ Len(engines) < MaxEngines
    /\ engines' = Append(engines, name)
    /\ UNCHANGED <<tree, entry, disc, world, run, result, history, behaviour, tce, calls, validated>>

\* An entry of config.engines, which is None when absent and a set of entries,
\* one at most for a name, otherwise.
EngineEntry(name, enabled) == [name |-> name, enabled |-> enabled]

activeEnginesOfOptIn(registered, config) ==
    LET engineConfig == IF config.engines = None THEN {} ELSE config.engines[1]
    IN SelectIdx(registered, LAMBDA i : EngineEntry(registered[i], TRUE) \in engineConfig)

\* The filter at the head of lint: the engines config.engines does not map to false.
activeEnginesOf(registered, config) ==
    LET engineConfig == IF config.engines = None THEN {} ELSE config.engines[1]
    IN SelectIdx(registered, LAMBDA i : EngineEntry(registered[i], FALSE) \notin engineConfig)

IsGeneric(name) == name \in GenericEngines

\* The validate calls of validateFile's map, in order: a call on the template
\* conformance engine runs to its first await at once.
RECURSIVE StartCalls(_, _, _, _, _, _)
StartCalls(applicable, k, engine, cs, filePath, config) ==
    IF k > Len(applicable) THEN Step(engine, cs)
    ELSE IF applicable[k] # sTemplateConformance
         THEN StartCalls(applicable, k + 1, engine, cs, filePath, config)
         ELSE LET step == TceStart(world, engine, filePath, FileByPath(filePath).content, config)
              IN StartCalls(applicable, k + 1, step.engine, [cs EXCEPT ![k] = step.call],
                            filePath, config)

\* What canValidate gives for each active engine: cv is "true", "false" or
\* "throws" per position, as the engine's code or its behaviour has it; the
\* filter stops at the first throw.
CanValidateChoice(cv, activeEngines, filePath) ==
    LET n == Len(activeEngines)
        throwsAt == {i \in 1..n : cv[i] = "throws"}
    IN /\ \A i \in 1..n :
            IF throwsAt # {} /\ i > MinOf(throwsAt) THEN cv[i] = "false"
            ELSE IF ~IsGeneric(activeEngines[i])
                 THEN cv[i] = (IF canValidate(filePath) THEN "true" ELSE "false")
                 ELSE Decided("canValidate", activeEngines[i], filePath) =>
                          cv[i] = DecidedValue("canValidate", activeEngines[i], filePath).kind
       /\ \A i, j \in 1..n : activeEngines[i] = activeEngines[j] /\ cv[i] # cv[j] =>
                                 throwsAt # {} /\ (i > MinOf(throwsAt) \/ j > MinOf(throwsAt))

\* The validate call of the k-th applicable engine for the file of the index.
ValidateCall(fileIdx, k) == [file |-> fileIdx, engine |-> k]

Rejected(r) == Result("rejected", <<>>, NoSummary, r.config, r.registered, r.files, r.log)

\* lint from the end of an await on: the loop starts validateFile for the next
\* file (up to its Promise.all), or the run normalizes, summarizes and returns.
Continue(r, cv) ==
    IF r.fileIdx > Len(r.files)
    THEN /\ cv = <<>>
         /\ run' = [r EXCEPT !.pc = "done"]
         /\ result' = Result("returned", normalizeFindings(r.allFindings),
                             computeSummary(normalizeFindings(r.allFindings), r.files),
                             r.config, r.registered, r.files, r.log)
         /\ UNCHANGED <<behaviour, tce, calls>>
    ELSE LET filePath == r.files[r.fileIdx]
             n == Len(r.activeEngines)
             throwsAt == {i \in 1..n : cv[i] = "throws"}
             asked == IF throwsAt = {} THEN 1..n ELSE 1..MinOf(throwsAt)
             applicable == SelectIdx(r.activeEngines, LAMBDA i : cv[i] = "true")
             started == StartCalls(applicable, 1, tce, calls, filePath, r.config)
         IN /\ cv \in [1..n -> {"true", "false", "throws"}]
            /\ CanValidateChoice(cv, r.activeEngines, filePath)
            /\ behaviour' = behaviour \cup
                  {Behaviour("canValidate", r.activeEngines[i], filePath, Outcome(cv[i], <<>>, <<>>)) :
                      i \in {j \in asked : IsGeneric(r.activeEngines[j])}}
            /\ Spent(behaviour') <= MaxDeviations
            /\ IF throwsAt # {}
               THEN /\ run' = [r EXCEPT !.pc = "done"]
                    /\ result' = Rejected(r)
                    /\ UNCHANGED <<tce, calls>>
               ELSE /\ run' = [r EXCEPT !.pc = "await", !.applicable = applicable,
                                        !.outOfOrder = FALSE,
                                        !.settled = [k \in 1..Len(applicable) |-> Pending],
                                        !.inFlight = @ \cup {ValidateCall(r.fileIdx, k) :
                                                                k \in 1..Len(applicable)}]
                    /\ tce' = started.engine
                    /\ calls' = started.call
                    /\ UNCHANGED result

CanValidateChoices(r) ==
    IF r.fileIdx > Len(r.files) THEN {<<>>}
    ELSE [1..Len(r.activeEngines) -> {"true", "false", "throws"}]

\* lint(config) up to its await of discoverFiles.
LintCall(config) ==
    /\ run.pc \in {"idle", "done"}
    /\ Len(history) + (IF result.status = "none" THEN 0 ELSE 1) < MaxRuns
    /\ run' = [IdleRun EXCEPT !.pc = "discover", !.config = config]
    /\ history' = IF result.status = "none" THEN history ELSE Append(history, result)
    /\ result' = NoResult
    /\ UNCHANGED <<tree, entry, disc, world, engines, behaviour, tce, calls, validated>>

\* discoverFiles settles: lint rejects with its error, or filters the engines
\* and enters the loop over the files.
DiscoverDone ==
    /\ run.pc = "discover"
    /\ IF fastGlobThrows(run.config.paths)
       THEN /\ run' = [run EXCEPT !.pc = "done"]
            /\ result' = Rejected(run)
            /\ UNCHANGED <<behaviour, tce, calls>>
       ELSE LET r == [run EXCEPT !.files = discoverFiles(tree, run.config.paths, run.config.exclude),
                                 !.registered = engines,
                                 !.activeEngines = activeEnginesOf(engines, run.config),
                                 !.fileIdx = 1]
            IN \E cv \in CanValidateChoices(r) : Continue(r, cv)
    /\ UNCHANGED <<tree, entry, disc, world, engines, history, validated>>

SettleAs(name, filePath, outcome) ==
    CASE outcome.kind = "returns" -> Settled(outcome.findings)
      [] outcome.kind = "throws" -> Settled(<<EngineErrorFinding(name, filePath, outcome.message)>>)
      [] OTHER -> NotIterable

\* The async callback of validateFile's map for the k-th applicable engine
\* ends: validate resolved, or it rejected and the catch clause made a finding.
EngineSettle(k) ==
    /\ run.pc = "await"
    /\ k \in 1..Len(run.applicable)
    /\ run.settled[k].state = "pending"
    /\ LET name == run.applicable[k]
           filePath == run.files[run.fileIdx]
           record(outcome) ==
               run' = [run EXCEPT !.settled[k] = SettleAs(name, filePath, outcome),
                                  !.inFlight = @ \ {ValidateCall(run.fileIdx, k)},
                                  !.returned = @ \cup {[call |-> ValidateCall(run.fileIdx, k),
                                                        name |-> name,
                                                        findings |-> SettleAs(name, filePath, outcome).findings]},
                                  !.outOfOrder = @ \/ \E j \in (k + 1)..Len(run.settled) :
                                                         run.settled[j].state # "pending",
                                  !.log = @ \cup {Behaviour("validate", name, filePath, outcome)}]
       IN IF IsGeneric(name)
          THEN /\ \E outcome \in Outcomes(name, filePath, MaxDeviations - Spent(behaviour)) \cup
                        {b.value : b \in {c \in behaviour : c.kind = "validate" /\ c.name = name
                                                            /\ c.filePath = filePath}} :
                    /\ Decided("validate", name, filePath) =>
                           outcome = DecidedValue("validate", name, filePath)
                    /\ behaviour' = behaviour \cup {Behaviour("validate", name, filePath, outcome)}
                    /\ record(outcome)
               /\ UNCHANGED <<tce, calls>>
          ELSE IF name = sAasTestEngines
          THEN /\ \E outcome \in PythonOutcomes(filePath) : record(outcome)
               /\ UNCHANGED <<tce, calls, behaviour>>
          ELSE /\ calls[k].stage \in {"returned", "threw"}
               /\ record(IF calls[k].stage = "returned"
                         THEN Outcome("returns", calls[k].findings, <<>>)
                         ELSE Outcome("throws", <<>>, <<122, 105, 112>>))
               /\ calls' = [calls EXCEPT ![k] = IdleCall]
               /\ UNCHANGED <<tce, behaviour>>
    /\ UNCHANGED <<tree, entry, disc, world, engines, result, history, validated>>

SomeSettled(settled) == \E k \in 1..Len(settled) : settled[k].state # "pending"

\* Promise.all over promises that never reject: it settles when all have.
AllSettled(settled) == \A k \in 1..Len(settled) : settled[k].state # "pending"

FileDoneLastFirst ==
    /\ run.pc = "await"
    /\ AllSettled(run.settled)
    /\ IF \E k \in 1..Len(run.settled) : run.settled[k].state = "notIterable"
       THEN /\ run' = [run EXCEPT !.pc = "done"]
            /\ result' = Rejected(run)
            /\ UNCHANGED <<behaviour, tce, calls>>
       ELSE LET n == Len(run.settled)
                r == [run EXCEPT
                        !.allFindings = @ \o Flatten([k \in 1..n |-> run.settled[n + 1 - k].findings]),
                        !.fileIdx = @ + 1, !.applicable = <<>>, !.settled = <<>>]
            IN \E cv \in CanValidateChoices(r) : Continue(r, cv)
    /\ UNCHANGED <<tree, entry, disc, world, engines, history, validated>>

\* Promise.all settles: validateFile flattens the results (and throws on one
\* that cannot be spread), lint appends them and goes on.
FileDone ==
    /\ run.pc = "await"
    /\ AllSettled(run.settled)
    /\ IF \E k \in 1..Len(run.settled) : run.settled[k].state = "notIterable"
       THEN /\ run' = [run EXCEPT !.pc = "done"]
            /\ result' = Rejected(run)
            /\ UNCHANGED <<behaviour, tce, calls>>
       ELSE LET r == [run EXCEPT
                        !.allFindings = @ \o Flatten([k \in 1..Len(run.settled) |-> run.settled[k].findings]),
                        !.fileIdx = @ + 1, !.applicable = <<>>, !.settled = <<>>]
            IN \E cv \in CanValidateChoices(r) : Continue(r, cv)
    /\ UNCHANGED <<tree, entry, disc, world, engines, history, validated>>

\* The engine and the call in slot k after a stretch of validate.
Put(k, step) ==
    /\ tce' = step.engine
    /\ calls' = [calls EXCEPT ![k] = step.call]

\* loadTemplates of the call in slot k ends.
TceLoadDone(k) ==
    /\ calls[k].stage = "loadTemplates"
    /\ \E files \in Orders(TemplateFilesUnder(world, calls[k].templateDir[1])) :
          Put(k, TceAfterLoad(tce, calls[k], files))
    /\ UNCHANGED <<tree, entry, disc, world, engines, run, result, history, behaviour, validated>>

sScratchPrefix == <<47, 116, 109, 112, 47, 97, 97, 115, 45, 99, 105, 45, 108, 105, 110, 116, 45>>

\* fs.mkdtemp(os.tmpdir() + "/aas-ci-lint-"): a new directory of a name not
\* given before, here numbered by the directories the calls on record made.
mkdtemp ==
    sScratchPrefix \o NumToString(1 + Cardinality({k \in DOMAIN calls : calls[k].scratch # None})
                                    + Cardinality({m \in DOMAIN validated : validated[m].scratch # None}))

rmOnSuccess(w, tempDir, environment) ==
    IF environment.kind = "throws" THEN w ELSE [w EXCEPT !.dirs = @ \ {tempDir}]

\* The finally clause of loadEnvironment, whatever the try block came to:
\* fs.rm(tempDir, {recursive: true, force: true}).
rm(w, tempDir, environment) == [w EXCEPT !.dirs = @ \ {tempDir}]

\* An await of loadEnvironment of the call in slot k ends: for a package the
\* one on mkdtemp first; then loadEnvironment itself, the scratch directory
\* removed.
TceEnvDone(k) ==
    /\ calls[k].stage = "loadEnvironment"
    /\ IF toLowerCase(extname(calls[k].filePath)) = sAasx /\ calls[k].scratch = None
       THEN /\ calls' = [calls EXCEPT ![k].scratch = Some(mkdtemp)]
            /\ world' = [world EXCEPT !.dirs = @ \cup {mkdtemp}]
            /\ UNCHANGED tce
       ELSE /\ Put(k, TceAfterEnv(tce, calls[k]))
            /\ world' = IF calls[k].scratch = None THEN world
                        ELSE rm(world, calls[k].scratch[1],
                                loadEnvironment(calls[k].filePath, calls[k].content))
    /\ UNCHANGED <<tree, entry, disc, engines, run, result, history, behaviour, validated>>

(***************************************************************************)
(* The orchestrator with its engines: what lint() runs over.               *)
(***************************************************************************)

sT == <<47, 116>>

sN == <<47, 110>>

sX == <<120>>

\* A template file with one submodel that requires one element.
TemplateDoc(semanticId, idShort) ==
    JsonText(JObj(<<Fld("submodels",
        JArr(<<JObj(<<Fld("idShort", JStr(<<84>>)), Fld("semanticId", semanticId),
                      Fld("submodelElements", JArr(<<JObj(<<Fld("idShort", JStr(idShort))>>)>>))>>)>>))>>))

\* An instance with one submodel of semantic ID x and the given elements.
InstanceDoc(semanticId, submodelElements) ==
    JsonText(JObj(<<Fld("submodels",
        JArr(<<JObj(<<Fld("semanticId", semanticId),
                      Fld("submodelElements", JArr(submodelElements))>>)>>))>>))

\* The three forms of a semantic ID: the bare string, {value: id} and a
\* reference whose second key is the first with a string value.
StringForm(id) == JStr(id)

ValueForm(id) == JObj(<<Fld("value", JStr(id))>>)

KeysForm(id) ==
    JObj(<<Fld("keys", JArr(<<JObj(<<Fld("type", JStr(<<83>>))>>), JObj(<<Fld("value", JStr(id))>>)>>))>>)

TemplateFile(path, content) == [path |-> path, content |-> content]

\* The directory /t exists and holds the template x.json; /n does not exist,
\* nor does the default template directory.
LintWorld ==
    World({sT}, {TemplateFile(sT \o <<47, 120>> \o sJson, TemplateDoc(StringForm(sX), <<112>>))}, None, <<47, 119>>)

\* /a.json lacks the element its template requires, /B.json has no submodel
\* and /c.aasx is no zip archive.
LintFiles ==
    {File(<<>>, <<97>> \o sJson, InstanceDoc(KeysForm(sX), <<>>)),
     File(<<>>, <<66>> \o sJson, EmptyEnv),
     File(<<>>, <<99>> \o sAasx, Zip(TRUE, <<>>))}

MaxLintFiles == 2

LintTrees == {S \in SUBSET LintFiles : Cardinality(S) \in 1..MaxLintFiles}

LintConfigs ==
    {LintConfig(<<PatAll>>, <<>>, None, None, templateDir) : templateDir \in {None, Some(sT), Some(sN)}}
    \cup {LintConfig(<<PatAll>>, <<>>, Some({EngineEntry(<<103, 49>>, FALSE)}), None, Some(sT)),
          LintConfig(<<PatAll>>, <<>>,
                     Some({EngineEntry(<<103, 49>>, TRUE), EngineEntry(sTemplateConformance, FALSE)}),
                     None, Some(sT)),
          LintConfig(<<PatEmpty>>, <<>>, None, None, None)}

\* The caller lints with one configuration throughout.
NextConfigs == IF result.status = "none" THEN LintConfigs ELSE {result.config}

\* The caller registers g1 before g2 and each of them once; it may register
\* the template conformance engine twice.
Registrable ==
    LET has(name) == \E i \in 1..Len(engines) : engines[i] = name
    IN {sTemplateConformance} \cup (IF ~has(<<103, 49>>) THEN {<<103, 49>>}
                                    ELSE IF ~has(<<103, 50>>) THEN {<<103, 50>>} ELSE {})

NoOptions == [templateDir |-> None]

Init ==
    /\ tree \in LintTrees
    /\ disc = DiscNone
    /\ world = LintWorld
    /\ engines = <<>>
    /\ run = IdleRun
    /\ result = NoResult
    /\ history = <<>>
    /\ behaviour = {}
    /\ tce = NewEngine(NoOptions)
    /\ calls = [k \in 1..MaxEngines |-> IdleCall]
    /\ validated = <<>>
    /\ entry = NoEntry

Next ==
    \/ \E name \in Registrable : registerEngine(name)
    \/ \E config \in NextConfigs : LintCall(config)
    \/ DiscoverDone
    \/ \E k \in 1..MaxEngines : EngineSettle(k)
    \/ \E k \in 1..MaxEngines : TceLoadDone(k)
    \/ \E k \in 1..MaxEngines : TceEnvDone(k)
    \/ FileDone

Spec == Init /\ [][Next]_vars

(***************************************************************************)
(* The result of lint(): claims C1 to C6.                                  *)
(***************************************************************************)

\* The five members that identify a finding.
FindingKey(f) == <<f.location.filePath, f.location.jsonPointer, f.location.line, f.ruleId, f.message>>

\* The findings the engines returned in the validate calls of a run.
ReturnedFindings(log) == UNION {{b.value.findings[i] : i \in 1..Len(b.value.findings)} : b \in log}

\* C1: the findings of every returned result are in order of file path (as
\* localeCompare orders strings), within one file in ascending order of line
\* with the findings that have no line behind all that have one, and within
\* one file and line in order of ruleId.
C1_FindingsSorted ==
    result.status = "returned" =>
        \A i, j \in 1..Len(result.findings) : i < j =>
            LET a == result.findings[i]
                b == result.findings[j]
            IN /\ localeCompare(a.location.filePath, b.location.filePath) <= 0
               /\ a.location.filePath = b.location.filePath =>
                     /\ a.location.line = None => b.location.line = None
                     /\ a.location.line # None /\ b.location.line # None =>
                            a.location.line[1] <= b.location.line[1]
                     /\ a.location.line = b.location.line => localeCompare(a.ruleId, b.ruleId) <= 0

\* A result whose findings were handed over in another order, with a finding
\* without a line behind one of the same file with a line, two lines of one
\* file, and two files.
C1_Witness ==
    /\ result.status = "returned"
    /\ run.allFindings # result.findings
    /\ Len(run.allFindings) = Len(result.findings)
    /\ \E i, j, k \in 1..Len(result.findings) :
          /\ i < j /\ j < k
          /\ result.findings[i].location.filePath = result.findings[j].location.filePath
          /\ result.findings[i].location.line # None
          /\ result.findings[j].location.line = None
          /\ result.findings[k].location.filePath # result.findings[i].location.filePath

C3_ConsecutiveRunsAgree ==
    /\ Len(history) >= 1
    /\ result.status = "returned"
    /\ history[Len(history)].status = "returned"
    /\ history[Len(history)].config = result.config
    /\ history[Len(history)].registered = result.registered
    /\ history[Len(history)].files = result.files
    => result.findings = history[Len(history)].findings

\* C4: for every file on which an engine's validate failed, a returned result
\* holds exactly one finding <engine>/internal/engine-error of that file; it
\* has severity error, the engine as its source and a location of the file
\* path alone; and every finding another engine returned for the file is in
\* the result, up to deduplication.
C4_EngineIsolation ==
    result.status = "returned" =>
        \A b \in result.log : b.value.kind = "throws" =>
            LET errors == {i \in 1..Len(result.findings) :
                              /\ result.findings[i].ruleId = b.name \o sEngineError
                              /\ result.findings[i].location.filePath = b.filePath}
            IN /\ Cardinality(errors) = 1
               /\ \A i \in errors :
                     /\ result.findings[i].severity = "error"
                     /\ result.findings[i].source = b.name
                     /\ result.findings[i].location = Location(b.filePath, None, None, None, None)
               /\ \A c \in result.log : c.filePath = b.filePath /\ c.value.kind = "returns" =>
                     \A k \in 1..Len(c.value.findings) :
                         \E i \in 1..Len(result.findings) :
                             FindingKey(result.findings[i]) = FindingKey(c.value.findings[k])

\* An engine failed on a file for which another engine returned a finding.
C4_Witness ==
    /\ result.status = "returned"
    /\ \E b, c \in result.log :
          /\ b.value.kind = "throws" /\ c.value.kind = "returns"
          /\ b.name # c.name /\ b.filePath = c.filePath
          /\ Len(c.value.findings) > 0

\* C5: lint() rejects only when discovery fails.
C5_RejectsOnlyOnDiscovery ==
    result.status = "rejected" => fastGlobThrows(result.config.paths)

\* C6: in a returned result, filesWithFindings is at most filesScanned.
C6_FilesWithFindingsBounded ==
    result.status = "returned" => result.summary.filesWithFindings <= result.summary.filesScanned

(***************************************************************************)
(* Discovery: claims C7 and C8.                                            *)
(***************************************************************************)

UnderDir(f, dir) == \E i \in 1..Len(f.dirs) : f.dirs[i] = dir

Returned(files, path) == \E i \in 1..Len(files) : files[i] = path

\* The files C7 describes: matched by a pattern, matched by no exclude pattern,
\* under no node_modules or .git directory, with one of the three extensions
\* (in any letter case) and, for .json, JSON text of an object in which one of
\* the three keys holds an array.
C7Expected(fs, patterns, exclude) ==
    {f \in fs :
        /\ \E i \in 1..Len(patterns) : GlobMatches(patterns[i], f)
        /\ \A i \in 1..Len(exclude) : ~GlobMatches(exclude[i], f)
        /\ ~UnderDir(f, sNodeModules) /\ ~UnderDir(f, sGit)
        /\ \E ext \in {sAasx, sJson, sXml} : toLowerCase(extname(f.name)) = ext
        /\ toLowerCase(extname(f.name)) = sJson =>
              /\ f.content.parse = "ok"
              /\ f.content.value.t = "obj"
              /\ \E i \in 1..Len(f.content.value.o) :
                    /\ f.content.value.o[i].k \in {"assetAdministrationShells", "submodels", "conceptDescriptions"}
                    /\ f.content.value.o[i].x.t = "arr"}

\* C7: discoverFiles returns exactly the matched, not excluded files outside
\* node_modules and .git that have a supported extension and, if .json, look
\* like an AAS environment; other JSON is left out without an error.
C7_DiscoverExactly ==
    disc.status = "returned" =>
        /\ \A f \in C7Expected(tree, disc.patterns, disc.exclude) : Returned(disc.files, AbsPath(f))
        /\ \A i \in 1..Len(disc.files) :
              \E f \in C7Expected(tree, disc.patterns, disc.exclude) : AbsPath(f) = disc.files[i]

\* A call that met a file under .git its pattern names, JSON the sniff turns
\* down, and a file it returns.
C7_Witness ==
    /\ disc.status = "returned"
    /\ Len(disc.files) > 0
    /\ \E f \in tree : UnderDir(f, sGit) /\ \E i \in 1..Len(disc.patterns) : GlobMatches(disc.patterns[i], f)
    /\ \E f \in tree : /\ toLowerCase(extname(f.name)) = sJson
                       /\ \E i \in 1..Len(disc.patterns) : GlobMatches(disc.patterns[i], f)
                       /\ ~UnderDir(f, sGit)
                       /\ ~Returned(disc.files, AbsPath(f))

\* C8: the returned list is in ascending order of the default string
\* ordering (that of [...files].sort()) and holds no path twice.
C8_SortedByCodeUnits ==
    disc.status = "returned" =>
        \A i, j \in 1..Len(disc.files) : i < j => CodeUnitCompare(disc.files[i], disc.files[j]) < 0

(***************************************************************************)
(* discoverFiles called on its own.                                        *)
(***************************************************************************)

DiscInit ==
    /\ tree \in DiscoveryTrees
    /\ disc = DiscNone
    /\ world = LintWorld
    /\ engines = <<>>
    /\ run = IdleRun
    /\ result = NoResult
    /\ history = <<>>
    /\ behaviour = {}
    /\ tce = NewEngine(NoOptions)
    /\ calls = <<>>
    /\ validated = <<>>
    /\ entry = NoEntry

DiscNext == DiscoverCall

SpecDiscover == DiscInit /\ [][DiscNext]_vars

(***************************************************************************)
(* One TemplateConformanceEngine whose validate is called directly, a call *)
(* being allowed to start while another awaits.                            *)
(***************************************************************************)

MaxCalls == 2

MaxOverlap == 2

sVersion == <<49>>

sS == <<115>>

\* A template file with one submodel that requires one element, which has a
\* semantic ID of its own.
TemplateDocWith(semanticId, idShort, elementSemanticId) ==
    JsonText(JObj(<<Fld("submodels",
        JArr(<<JObj(<<Fld("idShort", JStr(<<84>>)), Fld("semanticId", semanticId),
                      Fld("submodelElements",
                          JArr(<<JObj(<<Fld("idShort", JStr(idShort)),
                                        Fld("semanticId", JStr(elementSemanticId))>>)>>))>>)>>))>>))

\* /t holds x.json and 1/y.json, templates of the same semantic ID in the
\* given form that require the elements p and q, both of semantic ID s; /n
\* does not exist.
TemplateWorlds ==
    {World({sT},
           {TemplateFile(sT \o <<47, 120>> \o sJson, TemplateDocWith(form, <<112>>, sS)),
            TemplateFile(sT \o <<47, 49, 47, 121>> \o sJson, TemplateDocWith(form, <<113>>, sS))},
           envTemplateDir, <<47, 119>>) :
        form \in {StringForm(sX), ValueForm(sX), KeysForm(sX)}, envTemplateDir \in {None, Some(sN)}}

ElementP == JObj(<<Fld("idShort", JStr(<<112>>))>>)

\* An instance whose first submodel has no semantic ID and whose second has
\* the semantic ID x and an element r of semantic ID s.
TwoSubmodels ==
    JsonText(JObj(<<Fld("submodels",
        JArr(<<JObj(<<Fld("idShort", JStr(<<65>>))>>),
               JObj(<<Fld("semanticId", StringForm(sX)),
                      Fld("submodelElements",
                          JArr(<<JObj(<<Fld("idShort", JStr(<<114>>)),
                                        Fld("semanticId", JStr(sS))>>)>>))>>)>>))>>))

TemplateCallFiles ==
    {File(<<>>, <<97>> \o sJson, InstanceDoc(StringForm(sX), <<>>)),
     File(<<>>, <<98>> \o sJson, InstanceDoc(ValueForm(sX), <<ElementP>>)),
     File(<<>>, <<100>> \o sJson, InstanceDoc(KeysForm(sX), <<>>)),
     File(<<>>, <<101>> \o sJson, TwoSubmodels),
     File(<<>>, <<99>> \o sAasx, Zip(TRUE, <<>>))}

TemplateCallConfigs ==
    {LintConfig(<<>>, <<>>, None, templateVersion, templateDir) :
        templateVersion \in {None, Some(sVersion)}, templateDir \in {None, Some(sT), Some(sN)}}

TemplateInit ==
    /\ tree = TemplateCallFiles
    /\ disc = DiscNone
    /\ world \in TemplateWorlds
    /\ engines = <<>>
    /\ run = IdleRun
    /\ result = NoResult
    /\ history = <<>>
    /\ behaviour = {}
    /\ tce \in {NewEngine([templateDir |-> d]) : d \in {None, Some(sN)}}
    /\ calls = [k \in 1..MaxOverlap |-> IdleCall]
    /\ validated = <<>>
    /\ entry = NoEntry

Busy == {k \in DOMAIN calls : calls[k].stage # "idle"}

\* A call that is at one of the awaits of validate.
InFlight(c) == c.stage \in {"loadTemplates", "loadEnvironment"}

PairOf(c) == <<c.templateDir, c.config.templateVersion>>

\* Call c is in flight when call d, of another (templateDir, templateVersion),
\* begins.
OverlapsAnotherPair(c, d) == InFlight(c) /\ PairOf(c) # PairOf(d)

\* A caller calls validate(filePath, config), in the first free slot. The
\* calls keep whether a call of another (templateDir, templateVersion) was in
\* flight with them (overlapped).
TemplateValidate(file, config) ==
    /\ Len(validated) + Cardinality(Busy) < MaxCalls
    /\ DOMAIN calls \ Busy # {}
    /\ LET k == MinOf(DOMAIN calls \ Busy)
           step == TceStart(world, tce, AbsPath(file), file.content, config)
           others == IF InFlight(step.call) THEN {j \in DOMAIN calls : OverlapsAnotherPair(calls[j], step.call)}
                     ELSE {}
       IN /\ tce' = step.engine
          /\ calls' = [j \in DOMAIN calls |->
                         IF j = k THEN [step.call EXCEPT !.overlapped = others # {}]
                         ELSE IF j \in others THEN [calls[j] EXCEPT !.overlapped = TRUE]
                         ELSE calls[j]]
    /\ UNCHANGED <<tree, entry, disc, world, engines, run, result, history, behaviour, validated>>

\* The caller takes what the call in slot k settled to.
TemplateSettle(k) ==
    /\ calls[k].stage \in {"returned", "threw"}
    /\ validated' = Append(validated, calls[k])
    /\ calls' = [calls EXCEPT ![k] = IdleCall]
    /\ UNCHANGED <<tree, entry, disc, world, engines, run, result, history, behaviour, tce>>

TemplateNext ==
    \/ \E file \in TemplateCallFiles, config \in TemplateCallConfigs : TemplateValidate(file, config)
    \/ \E k \in 1..MaxOverlap : TceLoadDone(k)
    \/ \E k \in 1..MaxOverlap : TceEnvDone(k)
    \/ \E k \in 1..MaxOverlap : TemplateSettle(k)

SpecTemplate == TemplateInit /\ [][TemplateNext]_vars

(***************************************************************************)
(* The template conformance engine: claims C9 and C10.                     *)
(***************************************************************************)

\* The calls that have returned or thrown, in the order they were started
\* within those the caller has taken and those it has not.
Finished ==
    validated \o SelectIdx(calls, LAMBDA k : calls[k].stage \in {"returned", "threw"})

IsTemplatesNotFound(f) == f.ruleId = sTemplateConformance \o sTemplatesNotFound

NotFoundIn(c) == {i \in 1..Len(c.findings) : IsTemplatesNotFound(c.findings[i])}

\* Template checking was asked for: by the engine's option, config.templateDir,
\* AAS_CI_LINT_TEMPLATE_DIR or config.templateVersion.
Requested(c) ==
    \/ tce.options.templateDir # None
    \/ c.config.templateDir # None
    \/ world.envTemplateDir # None
    \/ c.config.templateVersion # None

\* C9: over all validate calls on the engine, at most one finding
\* template-conformance/templates-not-found is returned; it is a note of a
\* call that asked for template checking and resolved no template directory;
\* and a call that neither asked nor resolved a directory returns no finding.
C9_OneTemplatesNotFound ==
    /\ \A m, n \in 1..Len(Finished) : NotFoundIn(Finished[m]) # {} /\ NotFoundIn(Finished[n]) # {} => m = n
    /\ \A n \in 1..Len(Finished) :
          LET c == Finished[n]
          IN /\ Cardinality(NotFoundIn(c)) <= 1
             /\ \A i \in NotFoundIn(c) :
                   /\ c.findings[i].severity = "note"
                   /\ Requested(c)
                   /\ c.templateDir = None
             /\ ~Requested(c) /\ c.templateDir = None => c.stage = "returned" /\ c.findings = <<>>

\* Two calls asked for template checking without a directory being resolved:
\* the first returned the note, the second nothing.
C9_Witness ==
    /\ Len(Finished) = 2
    /\ \A n \in 1..2 : Requested(Finished[n]) /\ Finished[n].templateDir = None
    /\ NotFoundIn(Finished[1]) # {}
    /\ Finished[2].stage = "returned" /\ Finished[2].findings = <<>>

\* The identifier a semantic ID in one of the three forms stands for.
Denoted(semanticId) ==
    LET keys == Get(semanticId, "keys")
        valued == IF keys.t = "arr" THEN {i \in 1..Len(keys.a) : Get(keys.a[i], "value").t = "str"} ELSE {}
    IN CASE semanticId.t = "str" -> Some(semanticId.s)
         [] semanticId.t = "obj" /\ Get(semanticId, "value").t = "str" -> Some(Get(semanticId, "value").s)
         [] semanticId.t = "obj" /\ valued # {} -> Some(Get(keys.a[MinOf(valued)], "value").s)
         [] OTHER -> None

DocSubmodels(content) ==
    IF content.parse = "ok" /\ Get(content.value, "submodels").t = "arr"
    THEN Get(content.value, "submodels").a ELSE <<>>

\* The template files call c is to index hold a submodel of semantic ID id.
TemplateOf(c, id) ==
    \E t \in world.templates :
        /\ StartsWith(t.path, c.templateDir[1] \o <<47>>)
        /\ c.config.templateVersion # None => Includes(t.path, c.config.templateVersion[1])
        /\ \E i \in 1..Len(DocSubmodels(t.content)) :
              Denoted(Get(DocSubmodels(t.content)[i], "semanticId")) = Some(id)

\* C10: a call that returns having used the templates of its own directory
\* and version has matched every submodel of the instance whose semantic ID,
\* in any of the three forms, stands for the non-empty identifier X of a
\* template submodel, in any of the three forms, to the entry X.
C10_SemanticIdForms ==
    \A n \in 1..Len(Finished) :
        LET c == Finished[n]
            submodels == DocSubmodels(c.content)
        IN /\ c.stage = "returned"
           /\ c.templateDir # None
           /\ c.readKey \in {<<>>, <<c.templateDir, c.config.templateVersion>>}
           => \A i \in 1..Len(submodels) :
                 LET id == Denoted(Get(submodels[i], "semanticId"))
                 IN id # None /\ id[1] # <<>> /\ TemplateOf(c, id[1]) =>
                        Len(c.matched) >= i /\ c.matched[i] = id

\* A call matched an instance whose semantic ID is in another form than the
\* template's.
C10_Witness ==
    \E n \in 1..Len(Finished) :
        LET c == Finished[n]
            submodels == DocSubmodels(c.content)
        IN /\ c.stage = "returned"
           /\ Len(c.matched) = 1 /\ c.matched[1] = Some(sX)
           /\ \E t \in world.templates :
                 /\ StartsWith(t.path, c.templateDir[1] \o <<47>>)
                 /\ Get(DocSubmodels(t.content)[1], "semanticId").t # Get(submodels[1], "semanticId").t

\* The calls that ran the forEach over the submodels of their instance.
RanForEach(c) == c.stage = "returned" /\ c.readKey # <<>>

IsMissingElement(f) == f.ruleId = sTemplateConformance \o sMissingElement

\* The places in c.findings of the missing-element findings at /submodels/index.
MissingAt(c, index) ==
    {k \in 1..Len(c.findings) :
        /\ IsMissingElement(c.findings[k])
        /\ c.findings[k].location.jsonPointer
               = Some(<<47, 115, 117, 98, 109, 111, 100, 101, 108, 115, 47>> \o <<48 + index>>)}

\* The entries of the index the call read that have the identifier id.
EntriesOf(c, id) == {n \in 1..Len(c.used) : id # None /\ id[1] # <<>> /\ c.used[n].id = id[1]}

InSeq(seq, x) == \E n \in 1..Len(seq) : seq[n] = x

\* What C11 asks of submodel i of the instance of call c.
C11Submodel(c, submodel, i) ==
    LET entries == EntriesOf(c, Denoted(Get(submodel, "semanticId")))
        paths == collectInstancePaths(SubmodelElementsOf(submodel))
        absent(path) == ~InSeq(paths.idShort, path) /\ ~InSeq(paths.semantic, path)
        count(path) == Cardinality({k \in MissingAt(c, i - 1) : c.findings[k].details[1].expectedPath = path})
        due(template, path) ==
            (IF InSeq(template.requiredIdShortPaths, path) /\ absent(path) THEN 1 ELSE 0)
            + (IF InSeq(template.requiredSemanticPaths, path) /\ absent(path) THEN 1 ELSE 0)
    IN IF entries = {} THEN MissingAt(c, i - 1) = {}
       ELSE \A n \in entries :
               /\ \A k \in MissingAt(c, i - 1) :
                     /\ c.findings[k].severity = "error"
                     /\ Includes(c.findings[k].message, c.findings[k].details[1].expectedPath)
                     /\ count(c.findings[k].details[1].expectedPath)
                            = due(c.used[n], c.findings[k].details[1].expectedPath)
               /\ \A path \in SeqRange(c.used[n].requiredIdShortPaths)
                                 \cup SeqRange(c.used[n].requiredSemanticPaths) :
                     count(path) = due(c.used[n], path)

\* C11: a call that went through the submodels of its instance returns, for a
\* submodel matched to a template, one missing-element error at
\* /submodels/<index> for each required idShort path and each required
\* semantic path of the template that is in neither path set of the submodel,
\* and no other missing-element finding: none for a path in either set, none
\* for a submodel without semantic ID or without template.
C11_MissingElements ==
    \A m \in 1..Len(Finished) :
        LET c == Finished[m]
            submodels == DocSubmodels(c.content)
        IN RanForEach(c) =>
              /\ \A i \in 1..Len(submodels) : C11Submodel(c, submodels[i], i)
              /\ \A k \in 1..Len(c.findings) :
                    IsMissingElement(c.findings[k]) => \E i \in 1..Len(submodels) : k \in MissingAt(c, i - 1)

\* A call on the instance with two submodels returned one finding, at
\* /submodels/1, for the required idShort path, the required semantic path
\* being in the instance.
C11_Witness ==
    \E m \in 1..Len(Finished) :
        LET c == Finished[m]
        IN /\ RanForEach(c)
           /\ Len(DocSubmodels(c.content)) = 2
           /\ Len(c.findings) = 1
           /\ MissingAt(c, 1) = {1}
           /\ InSeq(collectInstancePaths(SubmodelElementsOf(DocSubmodels(c.content)[2])).semantic, sS)

(***************************************************************************)
(* Template indexing of one template element: the directory /t holds one   *)
(* template of semantic ID x whose only top-level element p, of semantic   *)
(* ID s, has the drawn minOccurrences and qualifiers and one child c that  *)
(* has neither.                                                            *)
(***************************************************************************)

QualifierTypes ==
    {<<67, 97, 114, 100, 105, 110, 97, 108, 105, 116, 121>>,        \* Cardinality
     <<109, 117, 108, 116, 105, 112, 108, 105, 99, 105, 116, 121>>, \* multiplicity
     <<79, 99, 99, 117, 114, 114, 101, 110, 99, 101>>,              \* Occurrence
     <<77, 105, 110>>,                                              \* Min
     <<85, 110, 105, 116>>}                                         \* Unit

QualifierValues ==
    {JStr(v) : v \in {<<48>>, <<49>>, <<48, 46, 46, 49>>, <<48, 46, 46, 42>>, <<49, 46, 46, 42>>,
                      <<48, 32, 46, 46, 32, 49>>,                       \* "0 .. 1"
                      <<90, 101, 114, 111, 84, 111, 79, 110, 101>>,     \* ZeroToOne
                      <<79, 110, 101, 84, 111, 77, 97, 110, 121>>,      \* OneToMany
                      <<48, 45, 49>>,                                   \* "0-1"
                      <<>>}}
    \cup {JNum(0), JNum(1)}

Optionally(key, values) == {<<>>} \cup {<<Fld(key, v)>> : v \in values}

Qualifiers ==
    {JObj(type \o value) :
        type \in Optionally("type", {JStr(t) : t \in QualifierTypes}
                                    \cup {JObj(<<Fld("value", JStr(t))>>) : t \in QualifierTypes}),
        value \in Optionally("value", QualifierValues)}

CardinalityOne == JObj(<<Fld("type", JStr(<<67, 97, 114, 100, 105, 110, 97, 108, 105, 116, 121>>)),
                         Fld("value", JStr(<<49>>))>>)

QualifierLists == {<<>>} \cup {<<q>> : q \in Qualifiers} \cup {<<CardinalityOne, q>> : q \in Qualifiers}

ElementC == JObj(<<Fld("idShort", JStr(<<99>>))>>)

TemplateElements ==
    {JObj(<<Fld("idShort", JStr(<<112>>)), Fld("semanticId", JStr(sS)), Fld("value", JArr(<<ElementC>>))>>
          \o minOccurrences \o qualifiers) :
        minOccurrences \in Optionally("minOccurrences", {JNum(0), JNum(1)}),
        qualifiers \in Optionally("qualifiers", {JArr(qs) : qs \in QualifierLists})}

RequiredWorlds ==
    {World({sT},
           {TemplateFile(sT \o <<47, 120>> \o sJson,
                         JsonText(JObj(<<Fld("submodels",
                             JArr(<<JObj(<<Fld("semanticId", JStr(sX)),
                                           Fld("submodelElements", JArr(<<element>>))>>)>>))>>)))},
           None, <<47, 119>>) :
        element \in TemplateElements}

RequiredInit ==
    /\ tree = {}
    /\ disc = DiscNone
    /\ world \in RequiredWorlds
    /\ engines = <<>>
    /\ run = IdleRun
    /\ result = NoResult
    /\ history = <<>>
    /\ behaviour = {}
    /\ tce = NewEngine(NoOptions)
    /\ calls = <<>>
    /\ validated = <<>>
    /\ entry = NoEntry

\* The index of the templates under /t is built and stored, as validate does
\* when no index is loaded.
IndexTemplates ==
    /\ tce.templateIndex = None
    /\ \E files \in Orders(TemplateFilesUnder(world, sT)) :
          tce' = [tce EXCEPT !.templateIndex = Some(loadTemplates(files, None)),
                             !.loadedTemplateDir = Some(sT)]
    /\ UNCHANGED <<tree, entry, disc, world, engines, run, result, history, behaviour, calls, validated>>

RequiredNext == IndexTemplates

SpecRequired == RequiredInit /\ [][RequiredNext]_vars

\* The top-level element of the template of the world.
ElementOf(w) ==
    LET file == CHOOSE f \in w.templates : TRUE
    IN SubmodelElementsOf(DocSubmodels(file.content)[1])[1]

QualifiersOf(element) ==
    IF IsArray(Get(element, "qualifiers")) THEN Get(element, "qualifiers").a ELSE <<>>

\* The type of a qualifier, in lower case.
TypeText(qualifier) ==
    toLowerCase(IF IsString(Get(qualifier, "type")) THEN Get(qualifier, "type").s
                ELSE ToText(Get(Get(qualifier, "type"), "value")))

\* The value of a qualifier as text, in lower case and without white space.
ValueText(qualifier) ==
    SelectSeq(toLowerCase(ToText(Get(qualifier, "value"))), LAMBDA c : ~IsSpace(c))

CardinalityLike(qualifier) ==
    \E word \in {<<99, 97, 114, 100, 105, 110, 97, 108, 105, 116, 121>>,
                 <<109, 117, 108, 116, 105, 112, 108, 105, 99, 105, 116, 121>>,
                 <<111, 99, 99, 117, 114, 114, 101, 110, 99, 101>>} : Includes(TypeText(qualifier), word)

MinLike(qualifier) == Includes(TypeText(qualifier), <<109, 105, 110>>)

\* Whether a cardinality text has the minimum 0: "0", "0..<max>" or "zero...".
MinimumZero(text) ==
    \/ text = <<48>>
    \/ StartsWith(text, <<122, 101, 114, 111>>)
    \/ \E k \in 1..(Len(text) - 3) :
          /\ AllDigits(SubSeq(text, 1, k)) /\ DigitsValue(SubSeq(text, 1, k)) = 0
          /\ SubSeq(text, k + 1, k + 2) = <<46, 46>>
          /\ LET max == SubSeq(text, k + 3, Len(text)) IN max = <<42>> \/ AllDigits(max)

\* The element is marked optional: minOccurrences 0, a cardinality-like
\* qualifier of minimum 0 or a min-like qualifier of value 0.
MarkedOptional(element) ==
    \/ Get(element, "minOccurrences") = JNum(0)
    \/ \E i \in 1..Len(QualifiersOf(element)) :
          LET q == QualifiersOf(element)[i]
          IN \/ CardinalityLike(q) /\ MinimumZero(ValueText(q))
             \/ MinLike(q) /\ ValueText(q) = <<48>>

\* The element says nothing of its requiredness, or all it says is a
\* cardinality whose minimum is not 0 or that does not parse.
NotMarkedOptional(element) ==
    \/ ~HasKey(element, "qualifiers") /\ ~HasKey(element, "minOccurrences")
    \/ /\ Get(element, "minOccurrences") # JNum(0)
       /\ QualifiersOf(element) # <<>>
       /\ \A i \in 1..Len(QualifiersOf(element)) :
             LET q == QualifiersOf(element)[i]
             IN CardinalityLike(q) /\ ~MinLike(q) /\ ~MinimumZero(ValueText(q))

\* The path is among the required idShort paths of the only index entry.
Indexed(path) == InSeq(tce.templateIndex[1][1].requiredIdShortPaths, path)

IndexedSemantic(path) == InSeq(tce.templateIndex[1][1].requiredSemanticPaths, path)

\* C12 as stated, of every element of the template, the child c included: an
\* element marked optional is in no required-path set, and an element not
\* marked optional is in them.
C12_OwnMarkDecides ==
    tce.templateIndex # None =>
        /\ MarkedOptional(ElementOf(world)) => ~Indexed(<<112>>) /\ ~IndexedSemantic(sS)
        /\ NotMarkedOptional(ElementOf(world)) => Indexed(<<112>>) /\ IndexedSemantic(sS)
        /\ MarkedOptional(ElementC) => ~Indexed(<<112, 47, 99>>)
        /\ NotMarkedOptional(ElementC) => Indexed(<<112, 47, 99>>)

\* C12: a top-level element of a template that is marked optional (a
\* cardinality, multiplicity or occurrence qualifier of minimum 0, a min-like
\* qualifier of value 0, minOccurrences 0) is in no required-path set; one
\* that says nothing of its requiredness, or only cardinalities of minimum
\* at least 1 or that do not parse, is in them; and its child, which says
\* nothing, is in the required paths exactly when the element itself is.
C12_MarkDecidesUnderRequired ==
    tce.templateIndex # None =>
        /\ MarkedOptional(ElementOf(world)) => ~Indexed(<<112>>) /\ ~IndexedSemantic(sS)
        /\ NotMarkedOptional(ElementOf(world)) => Indexed(<<112>>) /\ IndexedSemantic(sS)
        /\ Indexed(<<112, 47, 99>>) <=> Indexed(<<112>>)

\* The index was built from a template whose element has the cardinality
\* ZeroToOne, and holds neither the element nor its child.
C12_Witness ==
    /\ tce.templateIndex # None
    /\ \E i \in 1..Len(QualifiersOf(ElementOf(world))) :
          /\ CardinalityLike(QualifiersOf(ElementOf(world))[i])
          /\ ValueText(QualifiersOf(ElementOf(world))[i]) = <<122, 101, 114, 111, 116, 111, 111, 110, 101>>
    /\ ~Indexed(<<112>>)
    /\ ~Indexed(<<112, 47, 99>>)

(***************************************************************************)
(* The entry points: the command line (cli/src/cli.ts) and the GitHub      *)
(* Action (action/src/index.ts).  Each builds an orchestrator, registers   *)
(* its engines, awaits one lint and reports.                               *)
(***************************************************************************)

\* str.split(',')
RECURSIVE split(_)
split(str) ==
    LET commas == {i \in 1..Len(str) : str[i] = 44}
    IN IF commas = {} THEN <<str>>
       ELSE <<SubSeq(str, 1, MinOf(commas) - 1)>> \o split(SubSeq(str, MinOf(commas) + 1, Len(str)))

trim(str) ==
    LET kept == {i \in 1..Len(str) : ~IsSpace(str[i])}
    IN IF kept = {} THEN <<>> ELSE SubSeq(str, MinOf(kept), -MinOf({-i : i \in kept}))

parseFailOnUntrimmed(failOn) == split(failOn)

\* options.failOn.split(',').map(s => s.trim())
parseFailOn(failOn) == [i \in 1..Len(split(failOn)) |-> trim(split(failOn)[i])]

SeverityText(severity) ==
    CASE severity = "error" -> <<101, 114, 114, 111, 114>>
      [] severity = "warning" -> <<119, 97, 114, 110, 105, 110, 103>>
      [] OTHER -> <<110, 111, 116, 101>>

\* result.findings.some(f => failOn.includes(f.severity))
hasFailingFindings(findings, failOn) ==
    \E i \in 1..Len(findings), j \in 1..Len(failOn) : failOn[j] = SeverityText(findings[i].severity)

\* The default of the paths argument and of the paths input.
DefaultPaths == <<PatExt(sAasx), PatExt(sJson)>>

\* --fail-on: error (the default), "error, warning", note and the empty string.
FailOnTexts ==
    {<<101, 114, 114, 111, 114>>,
     <<101, 114, 114, 111, 114, 44, 32, 119, 97, 114, 110, 105, 110, 103>>,
     <<110, 111, 116, 101>>,
     <<>>}

sSarifPath == <<114, 46, 115, 97, 114, 105, 102>>

CliOptions ==
    {EntryOptions(paths, failOn, json, sarif, template, templateDir) :
        paths \in {DefaultPaths, <<PatEmpty>>}, failOn \in FailOnTexts, json \in BOOLEAN,
        sarif \in {None, Some(sSarifPath)}, template \in BOOLEAN, templateDir \in {None, Some(sT)}}

\* The inputs of the Action: paths and sarif have defaults, template-dir is
\* declared beside them.
ActionInputs ==
    {EntryOptions(DefaultPaths, failOn, FALSE, Some(sSarifPath), TRUE, templateDir) :
        failOn \in FailOnTexts, templateDir \in {None, Some(sT)}}

\* /t holds a template of semantic ID x that requires p; the environment
\* names /t as the template directory or names none.
EntryWorlds ==
    {World({sT}, {TemplateFile(sT \o <<47, 120>> \o sJson, TemplateDoc(StringForm(sX), <<112>>))},
           envTemplateDir, <<47, 119>>) :
        envTemplateDir \in {None, Some(sT)}}

\* /a.json lacks the element its template requires, /B.json has no submodel.
EntryTrees ==
    {S \in SUBSET {File(<<>>, <<97>> \o sJson, InstanceDoc(StringForm(sX), <<>>)),
                   File(<<>>, <<66>> \o sJson, EmptyEnv)} : S # {}}

EntryInit ==
    /\ tree \in EntryTrees
    /\ disc = DiscNone
    /\ world \in EntryWorlds
    /\ engines = <<>>
    /\ run = IdleRun
    /\ result = NoResult
    /\ history = <<>>
    /\ behaviour = {}
    /\ tce = NewEngine(NoOptions)
    /\ calls = [k \in 1..MaxEngines |-> IdleCall]
    /\ validated = <<>>
    /\ entry = NoEntry

\* run of cli.ts up to its await of lint: the configuration, the engines.
CliRun(options) ==
    /\ entry.pc = "idle"
    /\ entry' = Entry("linting", "cli", options, 0, FALSE)
    /\ engines' = <<sAasTestEngines>> \o (IF options.template THEN <<sTemplateConformance>> ELSE <<>>)
    /\ tce' = NewEngine([templateDir |-> options.templateDir])
    /\ run' = [IdleRun EXCEPT !.pc = "discover",
                              !.config = LintConfig(options.paths, <<>>, None, None, options.templateDir)]
    /\ UNCHANGED <<tree, disc, world, result, history, behaviour, calls, validated>>

\* The exit code of the command line: 2 when run threw, 1 on findings of a
\* failing severity, 0 otherwise.
CliExitCode(threw, findings, failOn) ==
    IF threw THEN 2 ELSE IF hasFailingFindings(findings, failOn) THEN 1 ELSE 0

\* run of cli.ts from the end of lint on: the report, the SARIF file, whose
\* writing may throw, and the exit code.
CliExit ==
    /\ entry.pc = "linting"
    /\ entry.kind = "cli"
    /\ run.pc = "done"
    /\ \E writeThrows \in IF result.status = "returned" /\ entry.options.sarif # None
                          THEN BOOLEAN ELSE {FALSE} :
          entry' = [entry EXCEPT
                      !.pc = "exited",
                      !.writeThrew = writeThrows,
                      !.exit = CliExitCode(result.status = "rejected" \/ writeThrows, result.findings,
                                           parseFailOn(entry.options.failOn))]
    /\ UNCHANGED <<tree, disc, world, engines, run, result, history, behaviour, tce, calls, validated>>

\* run of the Action up to its await of lint.
ActionRun(inputs) ==
    /\ entry.pc = "idle"
    /\ entry' = Entry("linting", "action", inputs, 0, FALSE)
    /\ engines' = <<sAasTestEngines>>
    /\ run' = [IdleRun EXCEPT !.pc = "discover",
                              !.config = LintConfig(inputs.paths, <<>>, None, None, None)]
    /\ UNCHANGED <<tree, disc, world, result, history, behaviour, tce, calls, validated>>

\* run of the Action from the end of lint on: annotations, SARIF, summary,
\* any of which may throw, and setFailed, which makes the exit code 1.
ActionExit ==
    /\ entry.pc = "linting"
    /\ entry.kind = "action"
    /\ run.pc = "done"
    /\ \E writeThrows \in IF result.status = "returned" THEN BOOLEAN ELSE {FALSE} :
          entry' = [entry EXCEPT
                      !.pc = "exited",
                      !.writeThrew = writeThrows,
                      !.exit = IF \/ result.status = "rejected"
                                  \/ writeThrows
                                  \/ hasFailingFindings(result.findings, parseFailOn(entry.options.failOn))
                               THEN 1 ELSE 0]
    /\ UNCHANGED <<tree, disc, world, engines, run, result, history, behaviour, tce, calls, validated>>

EntryNext ==
    \/ \E options \in CliOptions : CliRun(options)
    \/ \E inputs \in ActionInputs : ActionRun(inputs)
    \/ DiscoverDone
    \/ \E k \in 1..MaxEngines : EngineSettle(k)
    \/ \E k \in 1..MaxEngines : TceLoadDone(k)
    \/ \E k \in 1..MaxEngines : TceEnvDone(k)
    \/ FileDone
    \/ CliExit
    \/ ActionExit

SpecEntry == EntryInit /\ [][EntryNext]_vars

\* The severities a --fail-on text names.
FailOnSet(failOn) ==
    CASE failOn = <<101, 114, 114, 111, 114>> -> {"error"}
      [] failOn = <<101, 114, 114, 111, 114, 44, 32, 119, 97, 114, 110, 105, 110, 103>> -> {"error", "warning"}
      [] failOn = <<110, 111, 116, 101>> -> {"note"}
      [] OTHER -> {}

CliExited == entry.pc = "exited" /\ entry.kind = "cli"

Failing == \E i \in 1..Len(result.findings) : result.findings[i].severity \in FailOnSet(entry.options.failOn)

\* C13: the command line exits with 2 when lint or the writing of the output
\* threw; otherwise with 1 when lint returned a finding whose severity is in
\* the --fail-on set and with 0 when it returned none; and lint itself throws
\* over no finding: when it threw, no validate call had been made.
C13_ExitCode ==
    CliExited =>
        /\ entry.exit = 2 <=> (result.status = "rejected" \/ entry.writeThrew)
        /\ entry.exit = 1 <=> (result.status = "returned" /\ ~entry.writeThrew /\ Failing)
        /\ entry.exit = 0 <=> (result.status = "returned" /\ ~entry.writeThrew /\ ~Failing)
        /\ result.status = "rejected" => result.log = {}

\* The command line exited with 1 under --fail-on "error, warning" over a
\* warning, no finding of lint being an error.
C13_Witness ==
    /\ CliExited
    /\ entry.exit = 1
    /\ FailOnSet(entry.options.failOn) = {"error", "warning"}
    /\ \A i \in 1..Len(result.findings) : result.findings[i].severity # "error"

\* The template directory /t is named by the --template-dir option, by the
\* template-dir input or by AAS_CI_LINT_TEMPLATE_DIR, and template checks are
\* not switched off.
TemplatesConfigured ==
    /\ entry.options.template
    /\ entry.options.templateDir = Some(sT) \/ world.envTemplateDir = Some(sT)

sInstanceA == <<47, 97>> \o sJson

MissingElementReported ==
    \E i \in 1..Len(result.findings) :
        /\ IsMissingElement(result.findings[i])
        /\ result.findings[i].location.filePath = sInstanceA

\* C14: whatever the entry point, when lint returned over /a.json, whose
\* submodel lacks the element its template in /t requires, and /t is the
\* configured template directory, the findings hold a missing-element finding
\* for /a.json.
C14_TemplatesCheckedEverywhere ==
    /\ entry.pc = "exited"
    /\ result.status = "returned"
    /\ \E i \in 1..Len(result.files) : result.files[i] = sInstanceA
    /\ TemplatesConfigured
    => MissingElementReported

\* The same of the command line alone.
CliTemplatesChecked == entry.kind = "cli" => C14_TemplatesCheckedEverywhere

CliTemplatesCheckedWitness ==
    /\ CliExited
    /\ TemplatesConfigured
    /\ entry.options.templateDir = None
    /\ MissingElementReported

\* config.engines maps the name to false.
MappedToFalse(config, name) ==
    config.engines # None /\ \E e \in config.engines[1] : e.name = name /\ ~e.enabled

\* The run that returned asked the engine whether it can validate the file.
AskedCanValidate(name, filePath) == Decided("canValidate", name, filePath)

\* The run that returned called validate of the engine on the file.
Validated(name, filePath) ==
    \E b \in result.log : b.kind = "validate" /\ b.name = name /\ b.filePath = filePath

\* C15: in a run that returned, a registered engine that config.engines maps
\* to false was asked nothing, validated no file and is the source of no
\* finding; any other registered engine, with an entry true, with no entry or
\* with config.engines absent, was asked canValidate of every discovered file
\* and validated every file it can validate.
C15_EnabledUnlessFalse ==
    result.status = "returned" =>
        \A i \in 1..Len(result.registered) :
            LET name == result.registered[i]
            IN IF MappedToFalse(result.config, name)
               THEN /\ \A j \in 1..Len(result.files) :
                          /\ ~AskedCanValidate(name, result.files[j])
                          /\ ~Validated(name, result.files[j])
                    /\ \A k \in 1..Len(result.findings) : result.findings[k].source # name
               ELSE \A j \in 1..Len(result.files) :
                       IF IsGeneric(name)
                       THEN /\ AskedCanValidate(name, result.files[j])
                            /\ Validated(name, result.files[j])
                                   <=> DecidedValue("canValidate", name, result.files[j]).kind = "true"
                       ELSE Validated(name, result.files[j]) <=> canValidate(result.files[j])

\* A run returned findings of the template conformance engine, which has no
\* entry in config.engines, and none of g1, which is registered and mapped to
\* false.
C15_Witness ==
    /\ result.status = "returned"
    /\ MappedToFalse(result.config, <<103, 49>>)
    /\ \E i \in 1..Len(result.registered) : result.registered[i] = <<103, 49>>
    /\ \E k \in 1..Len(result.findings) : result.findings[k].source = sTemplateConformance

\* A run with config.engines absent, and one in which g1 has the entry true,
\* returned a finding of g1.
C15_WitnessEnabled ==
    /\ result.status = "returned"
    /\ result.config.engines # None
    /\ ~MappedToFalse(result.config, <<103, 49>>)
    /\ \E k \in 1..Len(result.findings) : result.findings[k].source = <<103, 49>>

(***************************************************************************)
(* Validate calls made one after the other on one engine, in worlds where  *)
(* any of /t, /t/published, /w/u (u from the working directory /w) and the *)
(* default template directory exist.  Each directory that exists holds     *)
(* x.json, a template of semantic ID x that requires one element, named    *)
(* after the directory: p, q, r and d.                                     *)
(***************************************************************************)

sU == <<117>>

sWorkingDir == <<47, 119>>

sPublishedT == sT \o <<47>> \o sPublished

sRelativeU == sWorkingDir \o <<47>> \o sU

\* The element the template of a directory requires.
RequiredElement(dir) ==
    CASE dir = sT -> <<112>>
      [] dir = sPublishedT -> <<113>>
      [] dir = sRelativeU -> <<114>>
      [] OTHER -> <<100>>

TemplateOfDir(dir) == TemplateFile(dir \o <<47, 120>> \o sJson, TemplateDoc(StringForm(sX), RequiredElement(dir)))

ResolveWorlds ==
    {World(dirs, {TemplateOfDir(dir) : dir \in dirs}, envTemplateDir, sWorkingDir) :
        dirs \in {D \in SUBSET {sT, sPublishedT, sRelativeU, getDefaultTemplateDir} :
                     sPublishedT \in D => sT \in D},
        envTemplateDir \in {None, Some(sT), Some(sU)}}

\* config.templateDir is absent, /t or the relative u; templateVersion is
\* absent or 1, a version no template file is of.
ResolveConfigs ==
    {LintConfig(<<>>, <<>>, None, templateVersion, templateDir) :
        templateVersion \in {None, Some(sVersion)}, templateDir \in {None, Some(sT), Some(sU)}}

\* The instance validated: one submodel of semantic ID x without elements.
ResolveFile == File(<<>>, <<97>> \o sJson, InstanceDoc(StringForm(sX), <<>>))

ResolveInit ==
    /\ tree = {ResolveFile}
    /\ disc = DiscNone
    /\ world \in ResolveWorlds
    /\ engines = <<>>
    /\ run = IdleRun
    /\ result = NoResult
    /\ history = <<>>
    /\ behaviour = {}
    /\ tce \in {NewEngine([templateDir |-> d]) : d \in {None, Some(sT), Some(sU)}}
    /\ calls = <<IdleCall>>
    /\ validated = <<>>
    /\ entry = NoEntry

\* The caller awaits each call before it makes the next.
ResolveNext ==
    \/ \E config \in ResolveConfigs : TemplateValidate(ResolveFile, config)
    \/ TceLoadDone(1)
    \/ TceEnvDone(1)
    \/ TemplateSettle(1)

SpecResolve == ResolveInit /\ [][ResolveNext]_vars

\* The directory a call names: the engine option if set, else
\* config.templateDir, else AAS_CI_LINT_TEMPLATE_DIR; a relative one is taken
\* from the working directory.
NamedDir(c) ==
    LET named == IF tce.options.templateDir # None THEN tce.options.templateDir
                 ELSE IF c.config.templateDir # None THEN c.config.templateDir
                 ELSE world.envTemplateDir
    IN IF named = None \/ named[1][1] = 47 THEN named ELSE Some(world.cwd \o <<47>> \o named[1])

\* The directory C16 has the call use: the published subdirectory of the named
\* directory or else the named directory, provided it exists; the default
\* directory, provided it exists, when no directory is named; else none.
ExpectedDir(c) ==
    IF NamedDir(c) = None
    THEN (IF getDefaultTemplateDir \in world.dirs THEN Some(getDefaultTemplateDir) ELSE None)
    ELSE IF NamedDir(c)[1] \notin world.dirs THEN None
    ELSE IF NamedDir(c)[1] \o <<47>> \o sPublished \in world.dirs
         THEN Some(NamedDir(c)[1] \o <<47>> \o sPublished)
    ELSE NamedDir(c)

MissingIn(c) == {k \in 1..Len(c.findings) : IsMissingElement(c.findings[k])}

\* C16: a call checks against the templates of the directory named by the
\* engine option, else by config.templateDir, else by the environment, or of
\* its published subdirectory when that exists, and against those of the
\* default directory when none is named; it returns no missing-element
\* finding when the directory it is to use does not exist.
C16_TemplateDirResolution ==
    \A m \in 1..Len(Finished) :
        LET c == Finished[m]
        IN /\ c.stage = "returned"
           /\ c.templateDir = ExpectedDir(c)
           /\ IF ExpectedDir(c) = None \/ c.config.templateVersion # None
              THEN MissingIn(c) = {}
              ELSE /\ Len(c.findings) = 1
                   /\ MissingIn(c) = {1}
                   /\ c.findings[1].details[1].expectedPath = RequiredElement(ExpectedDir(c)[1])
                   /\ c.findings[1].details[1].templateSource = TemplateOfDir(ExpectedDir(c)[1]).path

\* A call whose configuration names /t, under an environment that names u,
\* both of which exist, was checked against the template of /t/published.
C16_Witness ==
    \E m \in 1..Len(Finished) :
        LET c == Finished[m]
        IN /\ tce.options.templateDir = None
           /\ c.config.templateDir = Some(sT)
           /\ world.envTemplateDir = Some(sU)
           /\ sRelativeU \in world.dirs
           /\ MissingIn(c) = {1}
           /\ c.findings[1].details[1].expectedPath = <<113>>

(***************************************************************************)
(* Validate calls on packages: one engine, the template directory /t, up   *)
(* to MaxOverlap calls in flight at once.                                  *)
(***************************************************************************)

Package(name, zip) == File(<<>>, name \o sAasx, zip)

ZipEntry(name, content) == [name |-> name, content |-> content]

\* Packages that cannot be extracted, hold no environment, hold one in XML,
\* hold one that is no JSON, and hold one whose submodel lacks the element p.
PackageFiles ==
    {Package(<<99>>, Zip(TRUE, <<>>)),
     Package(<<110>>, Zip(FALSE, <<>>)),
     Package(<<109>>, Zip(FALSE, <<ZipEntry(sEnvXml, NotJson)>>)),
     Package(<<117>>, Zip(FALSE, <<ZipEntry(sEnvJson, NotJson)>>)),
     Package(<<101>>, Zip(FALSE, <<ZipEntry(sEnvJson, InstanceDoc(StringForm(sX), <<>>))>>))}

PackageConfig == LintConfig(<<>>, <<>>, None, None, Some(sT))

PackageInit ==
    /\ tree = PackageFiles
    /\ disc = DiscNone
    /\ world = LintWorld
    /\ engines = <<>>
    /\ run = IdleRun
    /\ result = NoResult
    /\ history = <<>>
    /\ behaviour = {}
    /\ tce = NewEngine(NoOptions)
    /\ calls = [k \in 1..MaxOverlap |-> IdleCall]
    /\ validated = <<>>
    /\ entry = NoEntry

PackageNext ==
    \/ \E file \in PackageFiles : TemplateValidate(file, PackageConfig)
    \/ \E k \in 1..MaxOverlap : TceLoadDone(k)
    \/ \E k \in 1..MaxOverlap : TceEnvDone(k)
    \/ \E k \in 1..MaxOverlap : TemplateSettle(k)

SpecPackage == PackageInit /\ [][PackageNext]_vars

IsScratch(dir) == StartsWith(dir, sScratchPrefix)

\* The call is inside loadEnvironment, past its mkdtemp.
InsideLoadEnvironment(c) == c.stage = "loadEnvironment" /\ c.scratch # None

\* C17: a scratch directory exists only while the call that made it is inside
\* loadEnvironment: once loadEnvironment has returned or thrown, whatever it
\* came to, the directory is gone.
C17_ScratchRemoved ==
    /\ \A dir \in world.dirs :
          IsScratch(dir) => \E k \in DOMAIN calls : InsideLoadEnvironment(calls[k]) /\ calls[k].scratch = Some(dir)
    /\ \A m \in 1..Len(Finished) : Finished[m].scratch # None => Finished[m].scratch[1] \notin world.dirs

\* Calls on a package that cannot be extracted and on one with an
\* environment have ended, the one rejected and the other with a finding
\* inside the package; both had a scratch directory and none is left.
C17_Witness ==
    /\ \E m \in 1..Len(Finished) : Finished[m].stage = "threw" /\ Finished[m].scratch # None
    /\ \E m \in 1..Len(Finished) :
          /\ Finished[m].scratch # None
          /\ Len(Finished[m].findings) = 1
          /\ Finished[m].findings[1].location.internalPath # None
    /\ \A dir \in world.dirs : ~IsScratch(dir)

RegisteredMidRun(name) ==
    /\ run.pc \in {"await", "done"}
    /\ \E i \in 1..Len(engines) : engines[i] = name
    /\ \A i \in 1..Len(run.registered) : run.registered[i] # name

\* C19: an engine registered after the run filtered the registry, that is
\* once the run validates files, is asked nothing in that run: no canValidate,
\* no validate, and no finding of the run comes from it.
C19_EnginesFixed ==
    \A name \in GenericEngines :
        RegisteredMidRun(name) =>
            /\ \A b \in run.log : b.name # name
            /\ \A b \in behaviour : b.name # name
            /\ \A i \in 1..Len(run.allFindings) : run.allFindings[i].source # name
            /\ \A i \in 1..Len(run.activeEngines) : run.activeEngines[i] # name
            /\ run.pc = "done" => \A i \in 1..Len(result.findings) : result.findings[i].source # name

\* g2 was registered while the run awaited the validate calls of its first
\* file; the run went on to its second file and returned.
C19_Witness ==
    /\ RegisteredMidRun(<<103, 50>>)
    /\ run.pc = "done"
    /\ result.status = "returned"
    /\ Len(result.files) = 2
    /\ result.log # {}

\* The index loadTemplates builds of a directory and a version.
IndexBuiltFrom(templateDir, templateVersion) ==
    loadTemplates((CHOOSE files \in Orders(TemplateFilesUnder(world, templateDir)) : TRUE), templateVersion)

\* C20: of calls made one after the other, one that resolved a template
\* directory built the index exactly when the engine had none loaded or had
\* one of another (templateDir, templateVersion); and the index the engine
\* holds is the one built from the pair it holds.
C20_IndexKeyedByDirAndVersion ==
    /\ \A m \in 1..Len(Finished) :
          LET c == Finished[m]
          IN c.templateDir # None =>
                (c.rebuilt <=> (~c.before[1] \/ <<c.before[2], c.before[3]>>
                                                   # <<c.templateDir, c.config.templateVersion>>))
    /\ tce.templateIndex # None =>
          /\ tce.loadedTemplateDir # None
          /\ tce.templateIndex[1] = IndexBuiltFrom(tce.loadedTemplateDir[1], tce.loadedTemplateVersion)
    /\ \A k \in DOMAIN calls :
          calls[k].stage \in {"loadEnvironment", "returned"} /\ calls[k].templateDir # None =>
              /\ tce.loadedTemplateDir = calls[k].templateDir
              /\ tce.loadedTemplateVersion = calls[k].config.templateVersion

\* Of two calls that resolved the same directory, the first built the index;
\* the second, of the same version, did not, and reported its findings from
\* the index the first had built.
C20_Witness ==
    /\ Len(validated) = 2
    /\ validated[1].templateDir # None
    /\ validated[1].templateDir = validated[2].templateDir
    /\ validated[1].config.templateVersion = validated[2].config.templateVersion
    /\ validated[1].rebuilt
    /\ ~validated[2].rebuilt
    /\ validated[2].findings # <<>>

(***************************************************************************)
(* Template indexing: claims C21 and C22. The directory /t holds x.json    *)
(* and 1/y.json, each unparsable, without a submodels array, or of one or  *)
(* two submodels; validate is called with no version, with "latest" and    *)
(* with the version 1, which only the path of 1/y.json contains.           *)
(***************************************************************************)

\* A template submodel of the given name and semantic ID (none when id is
\* empty) that requires one element.
IndexedSubmodel(name, id, idShort) ==
    JObj(<<Fld("idShort", JStr(name))>>
         \o (IF id = <<>> THEN <<>> ELSE <<Fld("semanticId", JStr(id))>>)
         \o <<Fld("submodelElements", JArr(<<JObj(<<Fld("idShort", JStr(idShort))>>)>>))>>)

\* A requires p and B requires q, both of semantic ID x; C is of semantic ID
\* n and D of none.
IndexedSubmodels ==
    {IndexedSubmodel(<<65>>, sX, <<112>>), IndexedSubmodel(<<66>>, sX, <<113>>),
     IndexedSubmodel(<<67>>, <<110>>, <<112>>), IndexedSubmodel(<<68>>, <<>>, <<112>>)}

IndexedDocs ==
    {NotJson, JsonText(JObj(<<>>))}
    \cup {JsonText(JObj(<<Fld("submodels", JArr(<<a>>))>>)) : a \in IndexedSubmodels}
    \cup {JsonText(JObj(<<Fld("submodels", JArr(pair))>>)) :
             pair \in {<<a, b>> : a, b \in IndexedSubmodels} \ {<<a, a>> : a \in IndexedSubmodels}}

IndexWorlds ==
    {World({sT},
           {TemplateFile(sT \o <<47, 120>> \o sJson, x), TemplateFile(sT \o <<47, 49, 47, 121>> \o sJson, y)},
           None, sWorkingDir) :
        x, y \in IndexedDocs}

IndexConfigs ==
    {LintConfig(<<>>, <<>>, None, templateVersion, Some(sT)) :
        templateVersion \in {None, Some(sVersion), Some(sLatest)}}

IndexInit ==
    /\ tree = {ResolveFile}
    /\ disc = DiscNone
    /\ world \in IndexWorlds
    /\ engines = <<>>
    /\ run = IdleRun
    /\ result = NoResult
    /\ history = <<>>
    /\ behaviour = {}
    /\ tce = NewEngine(NoOptions)
    /\ calls = <<IdleCall>>
    /\ validated = <<>>
    /\ entry = NoEntry

\* One instance validated once or twice, each call awaited before the next.
IndexNext ==
    \/ \E config \in IndexConfigs : TemplateValidate(ResolveFile, config)
    \/ TceLoadDone(1)
    \/ TceEnvDone(1)
    \/ TemplateSettle(1)

SpecIndex == IndexInit /\ [][IndexNext]_vars

\* The submodels with a semantic ID that indexing meets, in enumeration
\* order: those of the files that are of the pinned version, parse and have
\* a submodels array; each with the file it is of.
Met(files, templateVersion) ==
    LET pinned == Present(templateVersion) /\ templateVersion[1] # sLatest
        read(f) == f.content.parse = "ok" /\ IsArray(Get(f.content.value, "submodels"))
        taken(f) == read(f) /\ (pinned => Includes(f.path, templateVersion[1]))
        of(f) == LET submodels == Get(f.content.value, "submodels").a
                 IN [i \in 1..Len(submodels) |-> [submodel |-> submodels[i], path |-> f.path]]
        all == Flatten([i \in 1..Len(files) |-> IF taken(files[i]) THEN of(files[i]) ELSE <<>>])
    IN SelectIdx(all, LAMBDA i : Present(getSemanticIdValue(Get(all[i].submodel, "semanticId"))))

MetId(m) == getSemanticIdValue(Get(m.submodel, "semanticId"))[1]

\* The spec of a submodel met.
SpecOf(m) ==
    LET requiredPaths == collectTemplatePaths(SubmodelElementsOf(m.submodel))
    IN TemplateSpec(MetId(m), Get(m.submodel, "idShort"), requiredPaths.idShort, requiredPaths.semantic, m.path)

IsPrefix(s, t) == Len(s) <= Len(t) /\ \A i \in 1..Len(s) : s[i] = t[i]

\* The call that built the index the engine holds, the engine having been
\* called by one caller at a time.
Builder == {k \in DOMAIN calls : calls[k].rebuilt /\ calls[k].stage \in {"loadEnvironment", "returned"}}

\* C21: the index built of template files holds, for each semantic ID met,
\* one spec, that of the first submodel carrying it in enumeration order, and
\* no other spec; the index of the first files enumerated is kept as it is
\* when the later files are indexed.
C21_FirstSubmodelWins ==
    \A k \in Builder :
        LET index == tce.templateIndex[1]
            files == calls[k].files
            templateVersion == calls[k].config.templateVersion
            met == Met(files, templateVersion)
            first(id) == MinOf({m \in 1..Len(met) : MetId(met[m]) = id})
        IN /\ \A m \in 1..Len(met) :
                 /\ Cardinality({j \in 1..Len(index) : index[j].id = MetId(met[m])}) = 1
                 /\ IndexGet(index, MetId(met[m])) = SpecOf(met[first(MetId(met[m]))])
           /\ \A j \in 1..Len(index) : \E m \in 1..Len(met) : MetId(met[m]) = index[j].id
           /\ Len(index) = Cardinality({MetId(met[m]) : m \in 1..Len(met)})
           /\ \A n \in 0..Len(files) : IsPrefix(loadTemplates(SubSeq(files, 1, n), templateVersion), index)

\* An index was built of two files that both carry the semantic ID x, the
\* second with another required element and followed by a submodel of
\* semantic ID n.
C21_Witness ==
    \E k \in Builder :
        LET met == Met(calls[k].files, calls[k].config.templateVersion)
        IN /\ Len(met) >= 3
           /\ MetId(met[1]) = sX
           /\ \E m \in 2..Len(met) :
                 /\ MetId(met[m]) = sX
                 /\ met[m].path # met[1].path
                 /\ SpecOf(met[m]).requiredIdShortPaths # SpecOf(met[1]).requiredIdShortPaths
           /\ Len(tce.templateIndex[1]) = 2

\* C22: the index built of a template directory is a function of the
\* directory's contents and the version asked for: whatever order the files
\* are enumerated in, the index is the one the engine holds.
C22_IndexOfContentsAndVersion ==
    \A k \in Builder :
        \A files \in Orders(TemplateFilesUnder(world, calls[k].templateDir[1])) :
            loadTemplates(files, calls[k].config.templateVersion) = tce.templateIndex[1]

(***************************************************************************)
(* The tree walk: claims C23 and C30. The template /t/x.json has one       *)
(* submodel, of semantic ID x, whose elements are a chain of three, or an  *)
(* element beside a chain of two; each element has the idShort a, the      *)
(* idShort b and the semantic ID s, or neither, and is marked optional or  *)
(* not. An instance file is validated, then elements are added to it and   *)
(* it is validated again.                                                  *)
(***************************************************************************)

Labels ==
    {<<Fld("idShort", JStr(<<97>>))>>,
     <<Fld("idShort", JStr(<<98>>)), Fld("semanticId", JStr(sS))>>,
     <<>>}

PathNode(label, optional, children) ==
    JObj(label
         \o (IF optional THEN <<Fld("minOccurrences", JNum(0))>> ELSE <<>>)
         \o (IF children = <<>> THEN <<>> ELSE <<Fld("value", JArr(children))>>))

Leaves == {PathNode(label, optional, <<>>) : label \in Labels, optional \in BOOLEAN}

ChainsOfTwo == {PathNode(label, optional, <<leaf>>) : label \in Labels, optional \in BOOLEAN, leaf \in Leaves}

ChainsOfThree == {PathNode(label, optional, <<chain>>) : label \in Labels, optional \in BOOLEAN, chain \in ChainsOfTwo}

ElementTrees ==
    {<<chain>> : chain \in ChainsOfThree}
    \cup {<<PathNode(<<Fld("idShort", JStr(<<97>>))>>, optional, <<>>), chain>> :
             optional \in BOOLEAN, chain \in ChainsOfTwo}

PathWorlds ==
    {World({sT}, {TemplateFile(sT \o <<47, 120>> \o sJson, InstanceDoc(StringForm(sX), elements))},
           None, sWorkingDir) :
        elements \in ElementTrees}

\* The elements of the template of the world.
TemplateTree(w) ==
    LET file == CHOOSE f \in w.templates : TRUE
    IN SubmodelElementsOf(Get(file.content.value, "submodels").a[1])

ElementE == JObj(<<Fld("idShort", JStr(<<101>>))>>)

\* elements with e added under its first element.
WithChild(elements) ==
    <<PathNode(SelectIdx(elements[1].o, LAMBDA i : elements[1].o[i].k \notin {"value", "minOccurrences"}),
               HasKey(elements[1], "minOccurrences"),
               extractChildElements(elements[1]) \o <<ElementE>>)>>
    \o Tail(elements)

\* The instances of a world: with no element, with the elements of the
\* template, and with these and e beside or below.
InstanceTrees(w) ==
    LET elements == TemplateTree(w)
    IN {<<>>, elements, <<ElementE>> \o elements, WithChild(elements)}

\* The instances got by adding elements to one.
Added(w, before) ==
    LET elements == TemplateTree(w)
    IN IF before = <<>> THEN {elements}
       ELSE IF before = elements THEN {<<ElementE>> \o elements, WithChild(elements)}
       ELSE {}

InstanceFile(elements) == File(<<>>, <<97>> \o sJson, InstanceDoc(StringForm(sX), elements))

\* The elements of the one submodel of an instance.
InstanceTree(content) == SubmodelElementsOf(Get(content.value, "submodels").a[1])

\* The instance files the caller may validate next.
PathFiles(w) ==
    {InstanceFile(elements) :
        elements \in IF validated = <<>> THEN InstanceTrees(w)
                     ELSE Added(w, InstanceTree(validated[Len(validated)].content))}

PathInit ==
    /\ tree = {}
    /\ disc = DiscNone
    /\ world \in PathWorlds
    /\ engines = <<>>
    /\ run = IdleRun
    /\ result = NoResult
    /\ history = <<>>
    /\ behaviour = {}
    /\ tce = NewEngine(NoOptions)
    /\ calls = <<IdleCall>>
    /\ validated = <<>>
    /\ entry = NoEntry

PathNext ==
    \/ \E file \in PathFiles(world) :
          TemplateValidate(file, LintConfig(<<>>, <<>>, None, None, Some(sT)))
    \/ TceLoadDone(1)
    \/ TceEnvDone(1)
    \/ TemplateSettle(1)

SpecPaths == PathInit /\ [][PathNext]_vars

\* The nodes of an element tree, each as the indices that lead to it from
\* the top: those the walk visits.
RECURSIVE PositionsOf(_)
PositionsOf(elements) ==
    UNION {{<<i>>} \cup {<<i>> \o below : below \in PositionsOf(extractChildElements(elements[i]))} :
              i \in {j \in 1..Len(elements) : elements[j].t = "obj"}}

RECURSIVE NodeAt(_, _)
NodeAt(elements, position) ==
    IF Len(position) = 1 THEN elements[position[1]]
    ELSE NodeAt(extractChildElements(elements[position[1]]), Tail(position))

\* A node and its ancestors, from the top.
Lineage(elements, position) == [n \in 1..Len(position) |-> NodeAt(elements, SubSeq(position, 1, n))]

SemanticIdOf(element) == getSemanticIdValue(Get(element, "semanticId"))

\* The path of a node: the idShorts, or the semantic IDs, of those of its
\* lineage that have one.
PathOf(lineage, Segment(_)) ==
    JoinPath(Flatten([n \in 1..Len(lineage) |->
                         IF Present(Segment(lineage[n])) THEN <<Segment(lineage[n])[1]>> ELSE <<>>]))

NoneOptional(lineage) == \A n \in 1..Len(lineage) : isRequired(lineage[n])

\* The paths of the nodes that have a segment of their own and of whose
\* lineage none is marked optional.
RequiredPathsOf(elements, Segment(_)) ==
    {PathOf(Lineage(elements, position), Segment) :
        position \in {q \in PositionsOf(elements) :
                         /\ Present(Segment(NodeAt(elements, q)))
                         /\ NoneOptional(Lineage(elements, q))}}

\* The spec the engine holds for the template of the world.
HeldSpec == IndexGet(tce.templateIndex[1], sX)

\* C23 as stated: the path of a node is among the required paths only if
\* neither the node nor any of its ancestors is marked optional.
C23_NodePathOnlyIfNoneOptional ==
    tce.templateIndex # None =>
        LET elements == TemplateTree(world)
        IN \A position \in PositionsOf(elements) :
              LET lineage == Lineage(elements, position)
              IN /\ Present(IdShortOf(NodeAt(elements, position)))
                    /\ Has(HeldSpec.requiredIdShortPaths, PathOf(lineage, IdShortOf))
                    => NoneOptional(lineage)
                 /\ Present(SemanticIdOf(NodeAt(elements, position)))
                    /\ Has(HeldSpec.requiredSemanticPaths, PathOf(lineage, SemanticIdOf))
                    => NoneOptional(lineage)

\* C23: the required paths are the paths of the nodes that have an idShort
\* (a semantic ID) and of whose lineage none is marked optional; a node with
\* neither adds no segment to the paths below it, and a path is required
\* when one node of that path is, whatever the others of the same path are.
C23_RequiredPathsInherited ==
    tce.templateIndex # None =>
        /\ SeqRange(HeldSpec.requiredIdShortPaths) = RequiredPathsOf(TemplateTree(world), IdShortOf)
        /\ SeqRange(HeldSpec.requiredSemanticPaths) = RequiredPathsOf(TemplateTree(world), SemanticIdOf)

\* The template indexed is the chain of an element marked optional, an
\* element of neither idShort nor semantic ID, and b below them, beside
\* nothing: b is not required; or a required a above a nameless element
\* above b: a/b is required.
C23_Witness ==
    /\ tce.templateIndex # None
    /\ LET elements == TemplateTree(world)
       IN /\ Len(elements) = 1
          /\ isRequired(elements[1])
          /\ IdShortOf(elements[1]) = Some(<<97>>)
          /\ LET middle == extractChildElements(elements[1])[1]
             IN /\ IdShortOf(middle) = None
                /\ SemanticIdOf(middle) = None
                /\ isRequired(middle)
                /\ IdShortOf(extractChildElements(middle)[1]) = Some(<<98>>)
                /\ isRequired(extractChildElements(middle)[1])
          /\ HeldSpec.requiredIdShortPaths = <<<<97>>, <<97, 47, 98>>>>
          /\ HeldSpec.requiredSemanticPaths = <<sS>>

Within(s, t) == SeqRange(s) \subseteq SeqRange(t)

\* C30: the paths collected of an element tree in template mode are among
\* those collected of it in instance mode; an instance of the very elements
\* of its template gets no missing-element finding; and an instance to which
\* elements were added gets no missing-element finding it did not get before.
C30_TemplatePathsAmongInstancePaths ==
    /\ tce.templateIndex # None =>
          \A elements \in {TemplateTree(world)} \cup InstanceTrees(world) :
              /\ Within(collectTemplatePaths(elements).idShort, collectInstancePaths(elements).idShort)
              /\ Within(collectTemplatePaths(elements).semantic, collectInstancePaths(elements).semantic)
    /\ \A m \in 1..Len(validated) :
          InstanceTree(validated[m].content) = TemplateTree(world) =>
              \A i \in 1..Len(validated[m].findings) : ~IsMissingElement(validated[m].findings[i])
    /\ \A m \in 1..Len(validated) : \A n \in (m + 1)..Len(validated) :
          InstanceTree(validated[n].content) \in Added(world, InstanceTree(validated[m].content)) =>
              {f \in SeqRange(validated[n].findings) : IsMissingElement(f)}
                  \subseteq SeqRange(validated[m].findings)

\* An instance without elements got missing-element findings for a template
\* of two required paths or more; with the elements of the template it got
\* none.
C30_Witness ==
    /\ Len(validated) = 2
    /\ InstanceTree(validated[1].content) = <<>>
    /\ \E i \in 1..Len(validated[1].findings) : IsMissingElement(validated[1].findings[i])
    /\ InstanceTree(validated[2].content) = TemplateTree(world)
    /\ validated[2].findings = <<>>
    /\ Len(HeldSpec.requiredIdShortPaths) >= 2
    /\ Len(HeldSpec.requiredSemanticPaths) >= 1
    /\ \E position \in PositionsOf(TemplateTree(world)) :
          ~NoneOptional(Lineage(TemplateTree(world), position))

(***************************************************************************)
(* What the orchestrator does to findings: claims C24, C27 and C29.        *)
(***************************************************************************)

\* The findings the catch clause of validateFile made in the validate calls
\* of a run.
SynthesizedFindings(log) ==
    {EngineErrorFinding(b.name, b.filePath, b.value.message) : b \in {c \in log : c.value.kind = "throws"}}

Occurrences(findings, f) == Cardinality({i \in 1..Len(findings) : findings[i] = f})

Collected(r) ==
    Flatten([fileIdx \in 1..Len(r.files) |->
        LET of == {o \in r.returned : o.call.file = fileIdx}
        IN Flatten([k \in 1..Cardinality(of) |-> (CHOOSE o \in of : o.call.engine = k).findings])])

RegisteredAt(registered, name) == MinOf({i \in 1..Len(registered) : registered[i] = name})

\* C27 as stated: the findings of a returned result are those the callbacks
\* resolved to, taken by file and by engine in registration order whatever
\* order they settled in, sorted and deduplicated; and of the findings of one
\* dedup key that several engines returned, the result holds the one of the
\* engine registered first.
C27_EarliestRegisteredKept ==
    result.status = "returned" =>
        /\ result.findings = normalizeFindings(Collected(run))
        /\ \A i \in 1..Len(result.findings) : \A o \in run.returned :
              (\E j \in 1..Len(o.findings) : dedupKey(o.findings[j]) = dedupKey(result.findings[i]))
              => RegisteredAt(result.registered, result.findings[i].source)
                    <= RegisteredAt(result.registered, o.name)

\* The callbacks that resolved to a finding of the dedup key of f.
Holding(r, f) == {o \in r.returned : \E j \in 1..Len(o.findings) : dedupKey(o.findings[j]) = dedupKey(f)}

\* C27: the findings of a returned result are those the callbacks resolved
\* to, taken by file and by engine in registration order whatever order they
\* settled in, sorted and deduplicated; of the findings of one dedup key the
\* result holds the first so taken, which is that of the engine registered
\* first when the engines returned them for one and the same file.
C27_FirstCollectedKept ==
    result.status = "returned" =>
        LET collected == Collected(run)
        IN /\ result.findings = normalizeFindings(collected)
           /\ \A i \in 1..Len(result.findings) :
                 LET f == result.findings[i]
                 IN /\ f = collected[MinOf({j \in 1..Len(collected) : dedupKey(collected[j]) = dedupKey(f)})]
                    /\ (\A o, q \in Holding(run, f) : o.call.file = q.call.file) =>
                          \A o \in Holding(run, f) :
                              RegisteredAt(result.registered, f.source)
                                 <= RegisteredAt(result.registered, o.name)

\* Two engines returned a finding of one dedup key for the one file of the
\* run, the one registered first settling last; the result holds its finding.
C27_Witness ==
    /\ result.status = "returned"
    /\ Len(result.files) = 1
    /\ Cardinality(run.returned) = 2
    /\ run.outOfOrder
    /\ \E o, q \in run.returned :
          /\ o.call.file = q.call.file
          /\ o.call.engine < q.call.engine
          /\ o.name # q.name
          /\ o.findings # <<>>
          /\ o.findings[1] \in SeqRange(result.findings)
          /\ q \in Holding(run, o.findings[1])

\* C29: the errors, warnings and notes of the summary of a returned result
\* whose findings are all of these three severities add up to the number of
\* its findings, those left after deduplication; and filesScanned is the
\* number of the files discovered, also of those no engine could validate.
C29_SummaryCounts ==
    result.status = "returned"
    /\ (\A i \in 1..Len(result.findings) : result.findings[i].severity \in {"error", "warning", "note"})
    => /\ result.summary.errors + result.summary.warnings + result.summary.notes = Len(result.findings)
       /\ result.summary.filesScanned = Len(result.files)
       /\ result.files = discoverFiles(tree, result.config.paths, result.config.exclude)

\* A result of findings of two severities, fewer than were handed over, for
\* two files of which one has no finding.
C29_Witness ==
    /\ result.status = "returned"
    /\ Len(result.findings) < Len(run.allFindings)
    /\ result.summary.errors >= 1
    /\ result.summary.notes + result.summary.warnings >= 1
    /\ result.summary.filesScanned = 2
    /\ result.summary.filesWithFindings = 1

\* A result with a finding for two files of which one had no engine that
\* could validate it.
C29_WitnessNotValidated ==
    /\ result.status = "returned"
    /\ result.findings # <<>>
    /\ result.summary.filesScanned = 2
    /\ \E i \in 1..Len(result.files) : \A o \in run.returned : o.call.file # i

(***************************************************************************)
(* AasTestEnginesEngine (engine-python/src/engine.ts): the subprocess, what *)
(* it writes, and the parsers of its output.                                *)
(***************************************************************************)

JBool(b) == JVal("bool", <<>>, IF b THEN 1 ELSE 0, <<>>, <<>>)

\* The member names of the tool's output, as text.
KeyText(key) ==
    CASE key = "valid" -> <<118, 97, 108, 105, 100>>
      [] key = "violations" -> <<118, 105, 111, 108, 97, 116, 105, 111, 110, 115>>
      [] key = "errors" -> <<101, 114, 114, 111, 114, 115>>
      [] key = "message" -> <<109, 101, 115, 115, 97, 103, 101>>
      [] key = "msg" -> <<109, 115, 103>>
      [] key = "description" -> <<100, 101, 115, 99, 114, 105, 112, 116, 105, 111, 110>>
      [] key = "level" -> <<108, 101, 118, 101, 108>>
      [] key = "severity" -> <<115, 101, 118, 101, 114, 105, 116, 121>>
      [] key = "path" -> <<112, 97, 116, 104>>
      [] key = "pointer" -> <<112, 111, 105, 110, 116, 101, 114>>
      [] key = "jsonPointer" -> <<106, 115, 111, 110, 80, 111, 105, 110, 116, 101, 114>>

\* parts.join(',')
JoinComma(parts) ==
    IF parts = <<>> THEN <<>>
    ELSE parts[1] \o Flatten([i \in 1..(Len(parts) - 1) |-> <<44>> \o parts[i + 1]])

\* The JSON text of a value, as the tool writes it: no white space.
RECURSIVE JsonTextOf(_)
JsonTextOf(v) ==
    CASE v.t = "str" -> <<34>> \o v.s \o <<34>>
      [] v.t = "bool" -> IF v.n = 1 THEN <<116, 114, 117, 101>> ELSE <<102, 97, 108, 115, 101>>
      [] v.t = "num" -> NumToString(v.n)
      [] v.t = "arr" -> <<91>> \o JoinComma([i \in 1..Len(v.a) |-> JsonTextOf(v.a[i])]) \o <<93>>
      [] v.t = "obj" ->
           <<123>> \o JoinComma([i \in 1..Len(v.o) |->
                                    <<34>> \o KeyText(v.o[i].k) \o <<34, 58>> \o JsonTextOf(v.o[i].x)])
                   \o <<125>>
      [] OTHER -> <<110, 117, 108, 108>>

sError == <<101, 114, 114, 111, 114>>

sWarning == <<119, 97, 114, 110, 105, 110, 103>>

sInfo == <<105, 110, 102, 111>>

sBadId == <<98, 97, 100, 32, 105, 100>>

sInvalidType == <<73, 110, 118, 97, 108, 105, 100, 32, 116, 121, 112, 101, 46, 32, 71, 111, 116, 32, 120>>

sMissingQ == <<109, 105, 115, 115, 105, 110, 103, 32, 113>>

sRequired == <<114, 101, 113, 117, 105, 114, 101, 100>>

\* The violations the tool may list: {message}, {msg, severity, pointer},
\* a bare string, {message: ""}, and {description, level: "info"}.
ViolationBadId == JObj(<<Fld("message", JStr(sBadId))>>)

ViolationInvalidType ==
    JObj(<<Fld("msg", JStr(sInvalidType)), Fld("severity", JStr(sWarning)), Fld("pointer", JStr(<<47, 97>>))>>)

ViolationText == JStr(sMissingQ)

ViolationNoMessage == JObj(<<Fld("message", JStr(<<>>))>>)

ViolationRequired == JObj(<<Fld("description", JStr(sRequired)), Fld("level", JStr(sInfo))>>)

ViolationLists ==
    {<<>>, <<ViolationBadId>>, <<ViolationBadId, ViolationInvalidType>>, <<ViolationText>>,
     <<ViolationNoMessage, ViolationBadId>>, <<ViolationRequired>>}

\* The three shapes of a JSON output: {valid?, violations}, {valid?, errors}
\* and a bare array.
ShapedDoc(shape, valid, list) ==
    IF shape = "bare" THEN JArr(list)
    ELSE JObj((IF valid = None THEN <<>> ELSE <<Fld("valid", JBool(valid[1]))>>)
              \o <<Fld(shape, JArr(list))>>)

ShapedDocs ==
    {ShapedDoc(shape, valid, list) : shape \in {"violations", "errors"},
                                     valid \in {None, Some(TRUE), Some(FALSE)}, list \in ViolationLists}
    \cup {ShapedDoc("bare", None, list) : list \in ViolationLists}

\* An object of neither shape.
UnshapedDoc == JObj(<<Fld("valid", JBool(FALSE))>>)

\* The values whose text JSON.parse may be handed: the outputs, and the
\* violations, which lie between the first and the last brace of an array.
JsonUniverse ==
    ShapedDocs \cup {UnshapedDoc}
    \cup {ViolationBadId, ViolationInvalidType, ViolationNoMessage, ViolationRequired}

JsonTexts == {[text |-> JsonTextOf(v), value |-> v] : v \in JsonUniverse}

\* JSON.parse: the value of a text, None where it throws.
JsonParse(text) ==
    IF \E e \in JsonTexts : e.text = text
    THEN Some((CHOOSE e \in JsonTexts : e.text = text).value)
    ELSE None

MaxOf(S) == CHOOSE x \in S : \A y \in S : x >= y

\* a ?? b
OrElse(a, b) == IF a.t \in {"undef", "null"} THEN b ELSE a

Violation(message, level, path) == [message |-> message, level |-> level, path |-> path]

\* normalizeViolation: None for null.
normalizeViolation(violation) ==
    IF violation.t = "str" THEN Some(Violation(violation.s, JStr(sError), JUndef))
    ELSE IF violation.t \notin {"obj", "arr"} THEN None
    ELSE LET message == OrElse(OrElse(Get(violation, "message"), Get(violation, "msg")),
                                 Get(violation, "description"))
         IN IF message.t # "str" \/ message.s = <<>> THEN None
            ELSE Some(Violation(message.s,
                                OrElse(OrElse(Get(violation, "level"), Get(violation, "severity")),
                                         JStr(sError)),
                                OrElse(OrElse(Get(violation, "path"), Get(violation, "pointer")),
                                         Get(violation, "jsonPointer"))))

\* items.map(v => normalizeViolation(v)).filter(Boolean)
NormalizeAll(items) ==
    Flatten([i \in 1..Len(items) |-> normalizeViolation(items[i])])

\* normalizeViolations: None for null.
normalizeViolations(parsed) ==
    IF IsArray(Get(parsed, "violations")) THEN Some(NormalizeAll(Get(parsed, "violations").a))
    ELSE IF IsArray(Get(parsed, "errors")) THEN Some(NormalizeAll(Get(parsed, "errors").a))
    ELSE IF IsArray(parsed) THEN Some(NormalizeAll(parsed.a))
    ELSE None

TestEngineOutput(valid, violations) == [valid |-> valid, violations |-> violations]

\* parseJsonOutput: None for null.
parseJsonOutput(output) ==
    LET opening == {i \in 1..Len(output) : output[i] = 123}
        closing == {i \in 1..Len(output) : output[i] = 125}
    IN IF opening = {} \/ closing = {} THEN None
       ELSE LET jsonStart == MinOf(opening)
                jsonEnd == MaxOf(closing)
            IN IF jsonEnd <= jsonStart THEN None
               ELSE LET parsed == JsonParse(SubSeq(output, jsonStart, jsonEnd))
                    IN IF parsed = None THEN None
                       ELSE LET violations == normalizeViolations(parsed[1])
                            IN IF violations = None THEN None
                               ELSE Some(TestEngineOutput(
                                            IF Get(parsed[1], "valid").t = "bool"
                                            THEN Get(parsed[1], "valid").n = 1
                                            ELSE violations[1] = <<>>,
                                            violations[1]))

IsDigitOrSemicolon(c) == c \in 48..57 \/ c = 59

\* Whether the text has a colour code from start to stop: ESC [, digits and
\* semicolons, m.
IsAnsiCode(s, start, stop) ==
    /\ start + 2 <= stop
    /\ s[start] = 27
    /\ s[start + 1] = 91
    /\ s[stop] = 109
    /\ \A i \in (start + 2)..(stop - 1) : IsDigitOrSemicolon(s[i])

\* output.replace(/\x1b\[[0-9;]*m/g, '')
StripAnsi(s) ==
    IF \A i \in 1..Len(s) : s[i] # 27 THEN s
    ELSE LET kept == {i \in 1..Len(s) :
                        ~\E start \in 1..i : \E stop \in i..Len(s) : IsAnsiCode(s, start, stop)}
         IN [j \in 1..Cardinality(kept) |->
               s[CHOOSE i \in kept : Cardinality({k \in kept : k <= i}) = j]]

\* str.split('\n')
RECURSIVE splitLines(_)
splitLines(str) ==
    LET breaks == {i \in 1..Len(str) : str[i] = 10}
    IN IF breaks = {} THEN <<str>>
       ELSE <<SubSeq(str, 1, MinOf(breaks) - 1)>> \o splitLines(SubSeq(str, MinOf(breaks) + 1, Len(str)))

\* Whether parseTextOutput keeps a trimmed line.
IsViolationLine(trimmed) ==
    /\ trimmed # <<>>
    /\ trimmed # <<67, 104, 101, 99, 107>>
    /\ ~StartsWith(trimmed, <<67, 104, 101, 99, 107, 32>>)
    /\ ~StartsWith(trimmed, <<83, 107, 105, 112, 112, 101, 100>>)
    /\ \/ Includes(trimmed, <<64>>)
       \/ Includes(toLowerCase(trimmed), <<110, 111, 116, 32, 97, 108, 108, 111, 119, 101, 100>>)
       \/ Includes(toLowerCase(trimmed), <<109, 105, 115, 115, 105, 110, 103>>)
       \/ Includes(toLowerCase(trimmed), <<105, 110, 118, 97, 108, 105, 100>>)

parseTextOutput(output) ==
    LET lines == splitLines(StripAnsi(output)) \o <<>>
        trimmed == [i \in 1..Len(lines) |-> trim(lines[i])] \o <<>>
        kept == SelectIdx(trimmed, LAMBDA i : IsViolationLine(trimmed[i]))
    IN [i \in 1..Len(kept) |-> Violation(kept[i], JStr(sError), JUndef)]

mapSeverity(level) ==
    CASE level = JStr(sError) -> "error"
      [] level = JStr(sWarning) -> "warning"
      [] level = JStr(sInfo) -> "note"
      [] OTHER -> "error"

generateRuleId(message) ==
    LET lowerMessage == toLowerCase(message)
        has(term) == Includes(lowerMessage, term)
    IN sAasTestEngines \o
       (IF has(sRequired) \/ has(<<109, 97, 110, 100, 97, 116, 111, 114, 121>>)
        THEN <<47, 99, 111, 110, 115, 116, 114, 97, 105, 110, 116, 47, 114, 101, 113, 117, 105, 114, 101,
               100, 45, 112, 114, 111, 112, 101, 114, 116, 121>>
        ELSE IF has(<<116, 121, 112, 101>>) \/ has(<<101, 120, 112, 101, 99, 116, 101, 100>>)
        THEN <<47, 99, 111, 110, 115, 116, 114, 97, 105, 110, 116, 47, 116, 121, 112, 101, 45, 109, 105,
               115, 109, 97, 116, 99, 104>>
        ELSE IF has(<<115, 101, 109, 97, 110, 116, 105, 99>>) \/ has(<<114, 101, 102, 101, 114, 101, 110, 99, 101>>)
        THEN <<47, 115, 101, 109, 97, 110, 116, 105, 99, 47, 105, 110, 118, 97, 108, 105, 100, 45, 114,
               101, 102, 101, 114, 101, 110, 99, 101>>
        ELSE IF has(<<115, 116, 114, 117, 99, 116, 117, 114, 101>>) \/ has(<<105, 110, 118, 97, 108, 105, 100>>)
        THEN <<47, 115, 116, 114, 117, 99, 116, 117, 114, 101, 47, 105, 110, 118, 97, 108, 105, 100, 45,
               115, 116, 114, 117, 99, 116, 117, 114, 101>>
        ELSE <<47, 118, 97, 108, 105, 100, 97, 116, 105, 111, 110, 47, 103, 101, 110, 101, 114, 105, 99>>)

RuleNameLimit == 50

extractRuleName(message) ==
    LET ends == {i \in 1..Len(message) : message[i] \in {46, 33, 63}}
        firstSentence == IF ends = {} THEN message ELSE SubSeq(message, 1, MinOf(ends) - 1)
    IN IF Len(firstSentence) <= RuleNameLimit THEN firstSentence
       ELSE SubSeq(firstSentence, 1, RuleNameLimit - 3) \o <<46, 46, 46>>

\* parseOutput
parseOutput(output, filePath) ==
    IF output.valid \/ output.violations = <<>> THEN <<>>
    ELSE [i \in 1..Len(output.violations) |->
            LET violation == output.violations[i]
            IN Finding(generateRuleId(violation.message), extractRuleName(violation.message),
                       mapSeverity(violation.level), violation.message,
                       Location(filePath, None,
                                IF violation.path.t = "str" THEN Some(violation.path.s) ELSE None,
                                None, None),
                       sAasTestEngines, Some([violationIndex |-> i - 1]))]

\* The close handler of invokeTestEngines: the output the promise resolves
\* with, and the parser it came from.
OnCloseIgnoringCode(stdout, stderr, code) ==
    LET combined == stdout \o <<10>> \o stderr
        ofCombined == parseJsonOutput(combined)
        ofStdout == parseJsonOutput(stdout)
        ofStderr == parseJsonOutput(stderr)
        jsonOutput == IF ofCombined # None THEN ofCombined
                      ELSE IF ofStdout # None THEN ofStdout ELSE ofStderr
    IN IF jsonOutput # None THEN [parser |-> "json", output |-> jsonOutput[1]]
       ELSE LET violations == parseTextOutput(combined)
            IN [parser |-> "text", output |-> TestEngineOutput(violations = <<>>, violations)]

OnClose(stdout, stderr, code) ==
    LET combined == stdout \o <<10>> \o stderr
        ofCombined == parseJsonOutput(combined)
        ofStdout == parseJsonOutput(stdout)
        ofStderr == parseJsonOutput(stderr)
        jsonOutput == IF ofCombined # None THEN ofCombined
                      ELSE IF ofStdout # None THEN ofStdout ELSE ofStderr
    IN IF jsonOutput # None THEN [parser |-> "json", output |-> jsonOutput[1]]
       ELSE LET violations == parseTextOutput(combined)
            IN [parser |-> "text",
                output |-> TestEngineOutput(code = 0 /\ violations = <<>>, violations)]

\* --format: the input format, from the extension.
inputFormat(filePath) ==
    LET ext == toLowerCase(extname(filePath))
    IN IF ext = sXml THEN "xml" ELSE IF ext = sAasx THEN "aasx" ELSE "json"

\* What the tool writes besides JSON: check headers and a line with a path
\* marker, a skipped section, a coloured line, and nothing.
TextOutputs ==
    {<<>>,
     <<67, 104, 101, 99, 107, 32, 97, 10, 32, 32, 120, 32, 64, 32, 47, 97, 58, 32>> \o sBadId \o <<10>>,
     <<83, 107, 105, 112, 112, 101, 100, 32>> \o sMissingQ \o <<10, 111, 107>>,
     <<27, 91, 51, 49, 109, 73, 110, 118, 97, 108, 105, 100, 27, 91, 48, 109, 32, 105, 100>>}

ErrorOutputs ==
    {[text |-> <<>>, doc |-> None],
     [text |-> <<119, 97, 114, 110, 58, 32, 110, 111, 116, 32, 97, 108, 108, 111, 119, 101, 100>>, doc |-> None],
     [text |-> JsonTextOf(ShapedDoc("errors", Some(FALSE), <<ViolationBadId>>)),
      doc |-> Some(ShapedDoc("errors", Some(FALSE), <<ViolationBadId>>))]}

ExitCodes == {0, 1}

sSpawnFailure == <<115, 112, 97, 119, 110, 32, 69, 78, 79, 69, 78, 84>>

\* A subprocess: whether it can be spawned, what it writes to its two
\* streams, the JSON value each is the text of (if any), and its exit code.
Process(spawned, stdout, stdoutDoc, stderr, stderrDoc, code) ==
    [spawned |-> spawned, stdout |-> stdout, stdoutDoc |-> stdoutDoc,
     stderr |-> stderr, stderrDoc |-> stderrDoc, code |-> code]

PythonProcesses ==
    {Process(TRUE, out.text, out.doc, err.text, err.doc, code) :
        out \in {[text |-> JsonTextOf(doc), doc |-> Some(doc)] : doc \in ShapedDocs \cup {UnshapedDoc}}
                \cup {[text |-> text, doc |-> None] : text \in TextOutputs},
        err \in ErrorOutputs, code \in ExitCodes}
    \cup {Process(FALSE, <<>>, None, <<>>, None, 1)}

PythonFiles == {sInstanceA, <<47, 97>> \o sXml}

\* A call of validate: where it is, its file and format flag, the text
\* gathered from the two streams, the resolved output and its parser, and
\* what validate returned or rejected with.
PythonCall(pc, filePath, format, stdout, stderr, gotStdout, gotStderr, parser, output, findings, message) ==
    [pc |-> pc, filePath |-> filePath, format |-> format, stdout |-> stdout, stderr |-> stderr,
     gotStdout |-> gotStdout, gotStderr |-> gotStderr, parser |-> parser, output |-> output,
     findings |-> findings, message |-> message]

IdlePythonCall == PythonCall("idle", <<>>, "none", <<>>, <<>>, FALSE, FALSE, "none", None, <<>>, <<>>)

PythonInit ==
    /\ tree = {}
    /\ disc = DiscNone
    /\ world \in PythonProcesses
    /\ engines = <<sAasTestEngines>>
    /\ run = IdleRun
    /\ result = NoResult
    /\ history = <<>>
    /\ behaviour = {}
    /\ tce = NewEngine(NoOptions)
    /\ calls = <<IdlePythonCall>>
    /\ validated = <<>>
    /\ entry = NoEntry

\* validate up to the return of spawn.
PythonValidate(filePath) ==
    /\ calls[1].pc = "idle"
    /\ calls' = <<[IdlePythonCall EXCEPT !.pc = "running", !.filePath = filePath,
                                          !.format = inputFormat(filePath)]>>
    /\ UNCHANGED <<tree, disc, world, engines, run, result, history, behaviour, tce, validated, entry>>

\* proc.stdout.on('data')
PythonStdoutData ==
    /\ calls[1].pc = "running"
    /\ world.spawned
    /\ ~calls[1].gotStdout
    /\ world.stdout # <<>>
    /\ calls' = <<[calls[1] EXCEPT !.stdout = @ \o world.stdout, !.gotStdout = TRUE]>>
    /\ UNCHANGED <<tree, disc, world, engines, run, result, history, behaviour, tce, validated, entry>>

\* proc.stderr.on('data')
PythonStderrData ==
    /\ calls[1].pc = "running"
    /\ world.spawned
    /\ ~calls[1].gotStderr
    /\ world.stderr # <<>>
    /\ calls' = <<[calls[1] EXCEPT !.stderr = @ \o world.stderr, !.gotStderr = TRUE]>>
    /\ UNCHANGED <<tree, disc, world, engines, run, result, history, behaviour, tce, validated, entry>>

\* proc.on('close'), once both streams have ended, and the rest of validate.
PythonClose ==
    /\ calls[1].pc = "running"
    /\ world.spawned
    /\ calls[1].stdout = world.stdout
    /\ calls[1].stderr = world.stderr
    /\ LET closed == OnClose(calls[1].stdout, calls[1].stderr, world.code)
       IN calls' = <<[calls[1] EXCEPT !.pc = "returned", !.parser = closed.parser,
                                       !.output = Some(closed.output),
                                       !.findings = parseOutput(closed.output, calls[1].filePath)]>>
    /\ UNCHANGED <<tree, disc, world, engines, run, result, history, behaviour, tce, validated, entry>>

\* proc.on('error'): validate rejects.
PythonError ==
    /\ calls[1].pc = "running"
    /\ ~world.spawned
    /\ calls' = <<[calls[1] EXCEPT
                     !.pc = "rejected",
                     !.message = <<70, 97, 105, 108, 101, 100, 32, 116, 111, 32, 105, 110, 118, 111, 107,
                                   101, 32, 97, 97, 115, 95, 116, 101, 115, 116, 95, 101, 110, 103, 105,
                                   110, 101, 115, 58, 32>>
                                 \o sSpawnFailure
                                 \o <<46, 32, 73, 115, 32, 105, 116, 32, 105, 110, 115, 116, 97, 108, 108,
                                      101, 100, 63, 32, 82, 117, 110, 58, 32, 112, 105, 112, 32, 105, 110,
                                      115, 116, 97, 108, 108, 32, 97, 97, 115, 45, 116, 101, 115, 116, 45,
                                      101, 110, 103, 105, 110, 101, 115>>]>>
    /\ UNCHANGED <<tree, disc, world, engines, run, result, history, behaviour, tce, validated, entry>>

PythonNext ==
    \/ \E filePath \in PythonFiles : PythonValidate(filePath)
    \/ PythonStdoutData
    \/ PythonStderrData
    \/ PythonClose
    \/ PythonError

SpecPython == PythonInit /\ [][PythonNext]_vars

\* The array of violations of an output of one of the three shapes.
ListOf(doc) ==
    IF IsArray(doc) THEN doc.a
    ELSE IF HasKey(doc, "violations") THEN Get(doc, "violations").a ELSE Get(doc, "errors").a

\* The message of a listed violation, under any of its names; empty if none.
MessageOf(item) ==
    IF item.t = "str" THEN item.s
    ELSE LET message == OrElse(OrElse(Get(item, "message"), Get(item, "msg")), Get(item, "description"))
         IN IF message.t = "str" THEN message.s ELSE <<>>

Listed(doc) ==
    LET list == ListOf(doc)
    IN SelectIdx(list, LAMBDA i : MessageOf(list[i]) # <<>>)

MarkedValid(doc) == Get(doc, "valid") = JBool(TRUE)

\* Whether a returned call has made one finding of each listed violation of
\* the output, by the JSON parser.
Recognised(call, doc) ==
    /\ call.parser = "json"
    /\ IF MarkedValid(doc) THEN call.findings = <<>>
       ELSE /\ Len(call.findings) = Len(Listed(doc))
            /\ \A i \in 1..Len(call.findings) : call.findings[i].message = MessageOf(Listed(doc)[i])

\* C25: when the output of the subprocess is the JSON text of
\* {valid, violations}, of {valid, errors} or of a bare array of violations
\* (and nothing is written to the error stream), validate returns one finding
\* for each listed violation with a non-empty message, none if the output is
\* marked valid, and the output it resolved with is the JSON parser's.
C25_ThreeShapesRecognised ==
    calls[1].pc = "returned" /\ world.stdoutDoc # None /\ world.stderr = <<>>
    /\ world.stdoutDoc[1] \in ShapedDocs
    => Recognised(calls[1], world.stdoutDoc[1])

\* The same for the two shapes that are objects: this holds.
ObjectShapesRecognised ==
    calls[1].pc = "returned" /\ world.stdoutDoc # None /\ world.stderr = <<>>
    /\ world.stdoutDoc[1] \in ShapedDocs /\ world.stdoutDoc[1].t = "obj"
    => Recognised(calls[1], world.stdoutDoc[1])

\* An object of two listed violations has been read: two findings.
ObjectShapesWitness ==
    /\ calls[1].pc = "returned"
    /\ world.stdoutDoc = Some(ShapedDoc("errors", None, <<ViolationBadId, ViolationInvalidType>>))
    /\ world.stderr = <<>>
    /\ Len(calls[1].findings) = 2

\* Whether the output a call resolved with is the same for every exit code.
SameForEveryCode(call) ==
    \A code \in ExitCodes : OnClose(call.stdout, call.stderr, code).output = call.output[1]

\* C26: for a returned call, if neither parser recovers a violation from
\* the output, the output is valid exactly if the exit code is zero; and if
\* one does, the output the call resolves with is the same for every exit
\* code.
C26_ExitCodeExactlyWhenNoneRecovered ==
    calls[1].pc = "returned"
    => IF /\ calls[1].output[1].violations = <<>>
          /\ parseTextOutput(calls[1].stdout \o <<10>> \o calls[1].stderr) = <<>>
       THEN calls[1].output[1].valid = (world.code = 0)
       ELSE SameForEveryCode(calls[1])

\* C26, amended: the exit code decides exactly when no JSON of a recognised
\* shape is found and the text parser recovers no violation: then the output
\* is valid exactly if the exit code is zero. When the text parser recovers a
\* violation the output is not valid; when JSON of a recognised shape is
\* found the output is the same for every exit code, also when it lists no
\* violation: valid is then its valid member or, without one, whether no
\* violation was recovered.
C26_ExitCodeOnlyWithoutJson ==
    calls[1].pc = "returned"
    => LET call == calls[1]
           output == call.output[1]
       IN /\ call.parser = "text" /\ output.violations = <<>> => output.valid = (world.code = 0)
          /\ call.parser = "text" /\ output.violations # <<>> => ~output.valid /\ SameForEveryCode(call)
          /\ call.parser = "json" => SameForEveryCode(call)
          /\ call.parser = "json" /\ world.stdoutDoc # None /\ world.stderr = <<>>
             => output.valid = IF Get(world.stdoutDoc[1], "valid").t = "bool"
                               THEN Get(world.stdoutDoc[1], "valid").n = 1
                               ELSE output.violations = <<>>

\* The tool wrote text with no violation line and ended with a non-zero
\* exit code: the output is not valid, and validate returns no finding.
C26_Witness ==
    /\ calls[1].pc = "returned"
    /\ calls[1].parser = "text"
    /\ calls[1].stdout # <<>>
    /\ calls[1].output[1].violations = <<>>
    /\ world.code = 1
    /\ ~calls[1].output[1].valid
    /\ calls[1].findings = <<>>

\* The tool wrote JSON listing no violation and ended with a non-zero exit
\* code: the output is valid.
JsonWithoutViolationsWitness ==
    /\ calls[1].pc = "returned"
    /\ calls[1].parser = "json"
    /\ calls[1].output[1].violations = <<>>
    /\ world.code = 1
    /\ calls[1].output[1].valid

(***************************************************************************)
(* Overlapping calls of validate on one engine: claim C28.                 *)
(***************************************************************************)

\* The index call c matched with is one loadTemplates builds for the
\* directory and version of c, and the engine held that pair.
ReadOwnIndex(c) ==
    /\ c.readKey = PairOf(c)
    /\ \E files \in Orders(TemplateFilesUnder(world, c.templateDir[1])) :
          c.used = loadTemplates(files, c.config.templateVersion)

OverlappedWitness ==
    \E m \in 1..Len(Finished) :
        RanForEach(Finished[m]) /\ Finished[m].overlapped /\ ~ReadOwnIndex(Finished[m])

\* Within one run of lint every call of validate carries the configuration
\* of the run, and so one (templateDir, templateVersion).
OnePairPerRun ==
    \A k \in DOMAIN calls : calls[k].stage # "idle" => calls[k].config = run.config

====
